---- MODULE Spec2Model ----
(***************************************************************************)
(* Model of multi_cloud_uploader: the Transfer Worker (worker.py), the     *)
(* download and upload tasks (tasks.py) and the dashboard's registry,      *)
(* dispatcher and status merge (app.py).                                   *)
(*                                                                         *)
(* Spec     one job: its worker process, its status document, cancel       *)
(*          sentinel and temp file, and one dashboard session observing it.*)
(* SpecReg  the registry: two dashboard sessions, add / dispatch / display *)
(*          / remove / clear over several jobs, workers abstracted to      *)
(*          their launch and their last status document.                   *)
(*                                                                         *)
(* Sizes are counted in units of 1/GB of a gibibyte (the real byte counts  *)
(* exceed TLC's integers); all comparisons are kept exact by doubling.     *)
(***************************************************************************)
EXTENDS Integers, Sequences, FiniteSets, TLC

\* ------------------------------------------------------------- bounds
\* Units per GiB (1024 ** 3 bytes in the code).
GB == 300
\* Longest response body, in chunks of one unit.
MaxChunks == 2
\* Longest list of selected destinations handed to the worker.
MaxSelected == 2

\* ---------------------------------------------------------- catalog
R2_NAME == "Cloudflare R2"
OCI_NAME == "Oracle Cloud"

\* tasks.py CLOUDS: the destination catalog, in its order.
CLOUDS == <<"Cloudflare R2", "ImpossibleCloud", "Wasabi", "Oracle Cloud">>

\* A destination name that the catalog does not hold.
OTHER_NAME == "Other"

CloudNames == {CLOUDS[i] : i \in 1..Len(CLOUDS)}

\* The names a worker invocation may list.
SelectableNames == {R2_NAME, "Wasabi", OCI_NAME, OTHER_NAME}

\* SIZE_LIMIT_GB = 19.5, doubled to stay in the integers.
SIZE_LIMIT_GB_x2 == 39

\* The catalog's 'max_size_gb' entries, doubled: R2_MAX_SIZE_GB = 19.5 for
\* Cloudflare R2, None (here 0) for the three others.
max_size_gb_x2(cloud) == IF cloud = R2_NAME THEN 39 ELSE 0

\* The destinations whose catalog entry declares a ceiling.
DeclaresCeiling == {c \in CloudNames : max_size_gb_x2(c) # 0}

\* ------------------------------------------------------------ helpers
Min(a, b) == IF a < b THEN a ELSE b

Range(s) == {s[i] : i \in 1..Len(s)}

\* A message: its fixed text and the number formatted into it.
Msg(t, n) == [text |-> t, n |-> n]

NoMsg == Msg("", 0)

\* One stage record of a status document.  stage "none" is a record without a
\* 'stage' key (the empty dict {}), percentage -1 one without a 'percentage' key.
Rec(s, p, m) == [stage |-> s, percentage |-> p, message |-> m]

EmptyRec == Rec("none", -1, NoMsg)

\* Sequences of distinct names of S, of length 0..n.
DistinctSeqs(S, n) ==
    {s \in UNION {[1..k -> S] : k \in 0..n} :
        \A i, j \in DOMAIN s : i # j => s[i] # s[j]}

\* A status document: the JSON object update_job_progress dumps.
Doc(st, m, d, c) == [status |-> st, message |-> m, download |-> d, clouds |-> c]

NoClouds == [c \in {} |-> EmptyRec]

NoDoc == Doc("", NoMsg, EmptyRec, NoClouds)

\* The status file: absent, empty (just opened for writing), partial (some of
\* the JSON text flushed) or json (a complete document).
File(k, d) == [kind |-> k, data |-> d]

TERMINAL == {"completed", "failed", "cancelled"}

VARIABLES
    \* ---- the job's files
    statusFile,            \* job_status/<job_id>.json
    cancelFile,            \* job_status/<job_id>.cancel exists
    tempFile,              \* temp_downloads/<job_id>_<filename> exists
    \* ---- the worker process (worker.py main and the tasks it calls)
    pc,                    \* the worker's position
    wr,                    \* update_job_progress under way: idle, open, partial
    wdoc,                  \* the document update_job_progress is dumping
    selected_clouds_list,
    progress_data,
    download_cancelled,
    new_file_size,         \* -2 while unbound
    temp_filepath_actual,  \* FALSE is None
    dl,                    \* download task locals
    clouds_to_upload,
    up,                    \* upload loop and upload task locals
    \* ---- the dashboard session (app.py)
    job_status,            \* st.session_state.jobs[i]['status']
    button,                \* the button the last display pass rendered for the job
    \* ---- history
    observed,              \* a cancellation check of the worker found the sentinel
    uploadLog,             \* destinations upload_file_to_cloud_task was called for
    cancelInDownload,      \* a sentinel was created while the download task ran
    \* ---- the environment of the worker process
    missing_vars,          \* tasks.py: some required environment variable is unset
    \* ---- the registry and its sessions (SpecReg)
    masterFile,            \* job_status/master_job_list.json
    session,               \* per dashboard session: st.session_state.jobs
    now,                   \* int(time.time())
    docs,                  \* per job_id: the status of its status document
    running,               \* per job_id: worker processes launched and not exited
    launched,              \* per job_id: worker processes ever launched
    added,                 \* jobs added so far
    \* ---- the master file as text (SpecLoad)
    master_state_file,     \* job_status/master_job_list.json: its presence and text
    job_list,              \* save_state's argument while the file is being written
    save_pc,               \* save_state's position: "idle" or "writing"
    last_saved,            \* the list of the last save_state that wrote all of it
    loaded_jobs,           \* outcome of the last load_state
    \* ---- one ProgressTracker and the threads that call it (SpecTracker)
    tracker,               \* the ProgressTracker object's attributes
    lock,                  \* self._lock: the thread holding it, or "free"
    thr,                   \* per transfer thread: its position in __call__
    clock,                 \* time.time(), in seconds
    unsent,                \* bytes of the file no callback has reported yet
    emitted                \* history of the documents __call__ wrote

fileVars == <<statusFile, cancelFile, tempFile>>
workerVars == <<pc, wr, wdoc, selected_clouds_list, progress_data, download_cancelled,
                new_file_size, temp_filepath_actual, dl, clouds_to_upload, up>>
dashVars == <<job_status, button>>
histVars == <<observed, uploadLog, cancelInDownload>>
envVars == <<missing_vars>>
loadVars == <<master_state_file, job_list, save_pc, last_saved, loaded_jobs>>
regVars == <<masterFile, session, now, docs, running, launched, added>>
trackVars == <<tracker, lock, thr, clock, unsent, emitted>>

\* ----------------------------------------------------- pure functions

\* min(int((done / total) * 100), 100), for total > 0.
Percentage(done, total) == Min((done * 100) \div total, 100)

\* A variant of get_bucket_size that hands back what the bucket holds even
\* when listing it failed; C32 tells it from the code's function.
get_bucket_size_IgnoresError(listing_ok, bucket_bytes) == bucket_bytes

\* get_bucket_size: the sum of the listed objects' sizes, 0 when listing fails.
get_bucket_size(listing_ok, bucket_bytes) == IF listing_ok THEN bucket_bytes ELSE 0

\* A variant of the size check that also refuses a file that fills the bucket
\* exactly to the limit; C7 tells it from the code's check.
ExceedsLimit_AtLimit(existing_size, file_size) ==
    2 * (existing_size + file_size) >= SIZE_LIMIT_GB_x2 * GB

\* existing_size + new_file_size > max_bytes, with max_bytes = 19.5 * 1024 ** 3.
ExceedsLimit(existing_size, file_size) ==
    2 * (existing_size + file_size) > SIZE_LIMIT_GB_x2 * GB

\* Twice the excess (existing_size + new_file_size) - max_bytes, in units.
Excess_x2(existing_size, file_size) ==
    2 * (existing_size + file_size) - SIZE_LIMIT_GB_x2 * GB

\* f"{excess_gb:.2f}": excess_gb = excess / 1024 ** 3 rounded to hundredths of a
\* GB, halves to the even hundredth.  x2 is twice the excess, so the value in
\* hundredths is (100 * x2) / (2 * GB).
FormatGB2(x2) ==
    LET num == 100 * x2
        den == 2 * GB
        q == num \div den
        r == num % den
    IN  IF 2 * r < den THEN q
        ELSE IF 2 * r > den THEN q + 1
        ELSE IF q % 2 = 0 THEN q ELSE q + 1

\* A variant of the final status that overlooks failed destinations; C2 tells
\* it from the code's aggregation.
FinalStatus_IgnoresFailures(cancelled, pd, selected) ==
    IF cancelled THEN "cancelled"
    ELSE IF pd.status = "failed" THEN "failed"
    ELSE "completed"

\* worker.py, "3. Final Status": the status the worker ends with on the path
\* that raised no exception.
FinalStatus(cancelled, pd, selected) ==
    IF cancelled THEN "cancelled"
    ELSE IF pd.status = "failed" THEN "failed"
    ELSE LET stage(i) == IF selected[i] \in DOMAIN pd.clouds
                         THEN pd.clouds[selected[i]].stage ELSE "none"
             upload_failed == \E i \in DOMAIN selected : stage(i) = "failed"
             all_skipped_or_completed ==
                 \A i \in DOMAIN selected : stage(i) \in {"completed", "skipped"}
         IN  IF upload_failed THEN "failed"
             ELSE IF all_skipped_or_completed THEN "completed"
             ELSE "processing"

\* progress_data as the document json.dump writes.
AsDoc(pd) == Doc(pd.status, NoMsg, pd.download, pd.clouds)

\* The document of the except branch of the worker's initialisation.
InitFailedDoc == Doc("failed", Msg("Worker init failed", 0), EmptyRec, NoClouds)

\* ------------------------------------------------ update_job_progress

\* open(status_file, 'w'): the file is truncated; json.dump(doc) follows in
\* WriteFlush / WriteClose.  The caller continues when the file is closed.
BeginWrite(doc) ==
    /\ statusFile' = File("empty", NoDoc)
    /\ wr' = "open"
    /\ wdoc' = doc

NoWrite == UNCHANGED <<statusFile, wr, wdoc>>

\* Part of the JSON text reaches the file before the rest.
WriteFlush ==
    /\ wr = "open"
    /\ UNCHANGED <<regVars, envVars, loadVars, trackVars>>
    /\ statusFile' = File("partial", NoDoc)
    /\ wr' = "partial"
    /\ UNCHANGED <<cancelFile, tempFile, pc, wdoc, selected_clouds_list, progress_data,
                   download_cancelled, new_file_size, temp_filepath_actual, dl,
                   clouds_to_upload, up, dashVars, histVars>>

\* The dump is complete and the file closed.
WriteClose ==
    /\ wr \in {"open", "partial"}
    /\ UNCHANGED <<regVars, envVars, loadVars, trackVars>>
    /\ statusFile' = File("json", wdoc)
    /\ wr' = "idle"
    /\ UNCHANGED <<cancelFile, tempFile, pc, wdoc, selected_clouds_list, progress_data,
                   download_cancelled, new_file_size, temp_filepath_actual, dl,
                   clouds_to_upload, up, dashVars, histVars>>

\* The worker runs its next statement: it is launched and not inside a write.
At(label) == pc = label /\ wr = "idle"

\* ---------------------------------------------------- worker.py main

\* The worker is inside download_file_with_progress_task (tasks.py 248-333):
\* at one of its statements, or in the write that is its last statement before
\* it returns (314) or re-raises (333).
InDownloadTask ==
    \/ pc \in {"dl_begin", "dl_request", "dl_loop", "dl_except", "dl_cancel_rm"}
    \/ pc \in {"dl_raise", "recheck"} /\ wr # "idle"

\* worker.py 5-12 imports tasks, whose module body (tasks.py 92-114) collects
\* the unset environment variables of all four destinations and, if there is
\* any, ends the process with sys.exit before main() is entered.
WImportExit ==
    /\ At("start")
    /\ UNCHANGED <<regVars, envVars, loadVars, trackVars>>
    /\ missing_vars
    /\ pc' = "sys_exit"
    /\ UNCHANGED <<fileVars, wr, wdoc, selected_clouds_list, progress_data,
                   download_cancelled, new_file_size, temp_filepath_actual, dl,
                   clouds_to_upload, up, dashVars, histVars>>

\* worker.py 32-47: the initial status document, or 'cancelled' when the
\* sentinel is already there, or the except branch when os.makedirs raises
\* (it cannot when the sentinel exists: the directory that holds it is there).
WStart ==
    /\ At("start")
    /\ UNCHANGED <<regVars, envVars, loadVars, trackVars>>
    /\ ~missing_vars
    /\ \/ /\ ~cancelFile
          /\ pc' = "init_failed_rm"
          /\ BeginWrite(InitFailedDoc)
          /\ UNCHANGED <<progress_data, observed>>
       \/ /\ cancelFile
          /\ progress_data' = [progress_data EXCEPT
                 !.status = "cancelled",
                 !.download = Rec("cancelled", -1, Msg("Cancelled before start.", 0))]
          /\ BeginWrite(AsDoc(progress_data'))
          /\ observed' = TRUE
          /\ pc' = "start_rm"
       \/ /\ ~cancelFile
          /\ BeginWrite(AsDoc(progress_data))
          /\ pc' = "dl_begin"
          /\ UNCHANGED <<progress_data, observed>>
    /\ UNCHANGED <<cancelFile, tempFile, selected_clouds_list, download_cancelled,
                   new_file_size, temp_filepath_actual, dl, clouds_to_upload, up,
                   dashVars, uploadLog, cancelInDownload>>

\* A variant of the early exit that leaves the sentinel in place; C20 tells
\* it from the code's exit.
WStartRemove_KeepsSentinel ==
    /\ At("start_rm")
    /\ UNCHANGED <<regVars, envVars, loadVars, trackVars>>
    /\ pc' = "done"
    /\ UNCHANGED <<fileVars, wr, wdoc, selected_clouds_list, progress_data,
                   download_cancelled, new_file_size, temp_filepath_actual, dl,
                   clouds_to_upload, up, dashVars, histVars>>

\* worker.py 38-39: os.remove(cancel_file); return.
WStartRemove ==
    /\ At("start_rm")
    /\ UNCHANGED <<regVars, envVars, loadVars, trackVars>>
    /\ cancelFile' = FALSE
    /\ pc' = "done"
    /\ UNCHANGED <<statusFile, tempFile, wr, wdoc, selected_clouds_list, progress_data,
                   download_cancelled, new_file_size, temp_filepath_actual, dl,
                   clouds_to_upload, up, dashVars, histVars>>

\* worker.py 46-47: if os.path.exists(cancel_file): os.remove(cancel_file); return.
WInitFailedRemove ==
    /\ At("init_failed_rm")
    /\ UNCHANGED <<regVars, envVars, loadVars, trackVars>>
    /\ cancelFile' = FALSE
    /\ pc' = "done"
    /\ UNCHANGED <<statusFile, tempFile, wr, wdoc, selected_clouds_list, progress_data,
                   download_cancelled, new_file_size, temp_filepath_actual, dl,
                   clouds_to_upload, up, dashVars, histVars>>

\* --------------------------- tasks.py download_file_with_progress_task

\* tasks.py 250-251.
DlBegin ==
    /\ At("dl_begin")
    /\ UNCHANGED <<regVars, envVars, loadVars, trackVars>>
    /\ progress_data' = [progress_data EXCEPT
           !.download = Rec("downloading", 0, Msg("Starting...", 0))]
    /\ BeginWrite(AsDoc(progress_data'))
    /\ pc' = "dl_request"
    /\ UNCHANGED <<cancelFile, tempFile, selected_clouds_list, download_cancelled,
                   new_file_size, temp_filepath_actual, dl, clouds_to_upload, up,
                   dashVars, histVars>>

\* The content-length header: absent (0), smaller than the body, or the most
\* a body holds.
TotalSizes == {0, 1, MaxChunks}

\* tasks.py 258-269: the request raises, or the response is open and the temp
\* file created.
DlRequest ==
    /\ At("dl_request")
    /\ UNCHANGED <<regVars, envVars, loadVars, trackVars>>
    /\ \/ /\ pc' = "dl_except"
          /\ UNCHANGED <<dl, tempFile>>
       \/ \E t \in TotalSizes :
            /\ dl' = [total_size |-> t, downloaded_size |-> 0, percentage |-> 0]
            /\ tempFile' = TRUE
            /\ pc' = "dl_loop"
    /\ UNCHANGED <<statusFile, cancelFile, wr, wdoc, selected_clouds_list, progress_data,
                   download_cancelled, new_file_size, temp_filepath_actual,
                   clouds_to_upload, up, dashVars, histVars>>

\* tasks.py 271-307: one iteration of the chunk loop.  cancel_due and
\* progress_due say whether more than a second has passed on each timer; n is
\* the chunk's length (0: an empty chunk, skipped by "continue").
DlChunk ==
    /\ At("dl_loop")
    /\ UNCHANGED <<regVars, envVars, loadVars, trackVars>>
    /\ dl.downloaded_size < MaxChunks
    /\ \E cancel_due \in BOOLEAN, progress_due \in BOOLEAN, n \in {0, 1} :
         IF cancel_due /\ cancelFile
         THEN /\ tempFile' = FALSE
              /\ progress_data' = [progress_data EXCEPT
                     !.download = Rec("cancelled", dl.percentage,
                                      Msg("Download cancelled by user.", 0)),
                     !.status = "cancelled"]
              /\ BeginWrite(AsDoc(progress_data'))
              /\ observed' = TRUE
              /\ pc' = "dl_cancel_rm"
              /\ UNCHANGED dl
         ELSE LET size == dl.downloaded_size + n
                  pct == IF n > 0 /\ dl.total_size > 0
                         THEN Percentage(size, dl.total_size) ELSE dl.percentage
              IN  /\ dl' = [dl EXCEPT !.downloaded_size = size, !.percentage = pct]
                  /\ IF n > 0 /\ dl.total_size > 0 /\ progress_due
                     THEN /\ progress_data' = [progress_data EXCEPT
                                 !.download = Rec("downloading", pct, Msg("MB of MB", size))]
                          /\ BeginWrite(AsDoc(progress_data'))
                     ELSE /\ NoWrite
                          /\ UNCHANGED progress_data
                  /\ UNCHANGED <<tempFile, observed, pc>>
    /\ UNCHANGED <<cancelFile, selected_clouds_list, download_cancelled, new_file_size,
                   temp_filepath_actual, clouds_to_upload, up, dashVars, uploadLog,
                   cancelInDownload>>

\* tasks.py 309-314 and worker.py 56-63: the body ended; stage 'completed' is
\* written and (temp_filepath, downloaded_size) returned.
DlEnd ==
    /\ At("dl_loop")
    /\ UNCHANGED <<regVars, envVars, loadVars, trackVars>>
    /\ progress_data' = [progress_data EXCEPT
           !.download = Rec("completed", 100, Msg("Complete: MB", dl.downloaded_size))]
    /\ BeginWrite(AsDoc(progress_data'))
    /\ temp_filepath_actual' = TRUE
    /\ new_file_size' = dl.downloaded_size
    /\ pc' = "recheck"
    /\ UNCHANGED <<cancelFile, tempFile, selected_clouds_list, download_cancelled, dl,
                   clouds_to_upload, up, dashVars, histVars>>

\* The transport raises while the body is read (tasks.py 271, 316).
DlRaise ==
    /\ At("dl_loop")
    /\ UNCHANGED <<regVars, envVars, loadVars, trackVars>>
    /\ pc' = "dl_except"
    /\ UNCHANGED <<fileVars, wr, wdoc, selected_clouds_list, progress_data,
                   download_cancelled, new_file_size, temp_filepath_actual, dl,
                   clouds_to_upload, up, dashVars, histVars>>

\* A variant of the except branch that takes every error for a failure,
\* sentinel or not; C33 tells it from the code's branch.
DlExcept_AlwaysFails ==
    /\ At("dl_except")
    /\ UNCHANGED <<regVars, envVars, loadVars, trackVars>>
    /\ progress_data' = [progress_data EXCEPT
           !.download = Rec("failed", 0, Msg("Error: ", 0)),
           !.status = "failed"]
    /\ pc' = "dl_raise"
    /\ BeginWrite(AsDoc(progress_data'))
    /\ UNCHANGED <<cancelFile, tempFile, selected_clouds_list, download_cancelled,
                   new_file_size, temp_filepath_actual, dl, clouds_to_upload, up,
                   dashVars, histVars>>

\* tasks.py 316-333: the except branch: a cancellation when the sentinel is
\* there, otherwise stage 'failed' and the exception re-raised.
DlExcept ==
    /\ At("dl_except")
    /\ UNCHANGED <<regVars, envVars, loadVars, trackVars>>
    /\ IF cancelFile
       THEN /\ tempFile' = FALSE
            /\ progress_data' = [progress_data EXCEPT
                   !.download = Rec("cancelled", 0, Msg("Download cancelled by user.", 0)),
                   !.status = "cancelled"]
            /\ observed' = TRUE
            /\ pc' = "dl_cancel_rm"
       ELSE /\ progress_data' = [progress_data EXCEPT
                   !.download = Rec("failed", 0, Msg("Error: ", 0)),
                   !.status = "failed"]
            /\ pc' = "dl_raise"
            /\ UNCHANGED <<tempFile, observed>>
    /\ BeginWrite(AsDoc(progress_data'))
    /\ UNCHANGED <<cancelFile, selected_clouds_list, download_cancelled, new_file_size,
                   temp_filepath_actual, dl, clouds_to_upload, up, dashVars, uploadLog,
                   cancelInDownload>>

\* tasks.py 284-285 and 325-326, worker.py 59-61: the sentinel is removed and
\* (None, -1) returned; the worker sets download_cancelled.
DlCancelRemove ==
    /\ At("dl_cancel_rm")
    /\ UNCHANGED <<regVars, envVars, loadVars, trackVars>>
    /\ cancelFile' = FALSE
    /\ temp_filepath_actual' = FALSE
    /\ new_file_size' = -1
    /\ download_cancelled' = TRUE
    /\ pc' = "recheck"
    /\ UNCHANGED <<statusFile, tempFile, wr, wdoc, selected_clouds_list, progress_data,
                   dl, clouds_to_upload, up, dashVars, histVars>>

\* A variant of the worker's except branch that starts the download again;
\* C25 tells it from the code's branch.
WorkerExcept_Retries ==
    /\ At("dl_raise")
    /\ UNCHANGED <<regVars, envVars, loadVars, trackVars>>
    /\ pc' = "dl_begin"
    /\ UNCHANGED <<fileVars, wr, wdoc, selected_clouds_list, progress_data,
                   download_cancelled, new_file_size, temp_filepath_actual, dl,
                   clouds_to_upload, up, dashVars, histVars>>

\* tasks.py 333 and worker.py 112-120: the exception reaches the worker's
\* except branch.
WorkerExcept ==
    /\ At("dl_raise")
    /\ UNCHANGED <<regVars, envVars, loadVars, trackVars>>
    /\ progress_data' =
         IF download_cancelled THEN [progress_data EXCEPT !.status = "cancelled"]
         ELSE IF progress_data.download.stage # "failed"
              THEN [progress_data EXCEPT
                       !.status = "failed",
                       !.download.stage = "failed",
                       !.download.message = Msg("Worker failed: ", 0)]
              ELSE [progress_data EXCEPT !.status = "failed"]
    /\ pc' = "fin_temp"
    /\ UNCHANGED <<fileVars, wr, wdoc, selected_clouds_list, download_cancelled,
                   new_file_size, temp_filepath_actual, dl, clouds_to_upload, up,
                   dashVars, histVars>>

\* ------------------------------------------- worker.py main, continued

\* A variant of the re-check that records the cancellation in the document
\* but does not set download_cancelled; C21 tells it from the code's re-check.
Recheck_KeepsUploading ==
    /\ At("recheck")
    /\ UNCHANGED <<regVars, envVars, loadVars, trackVars>>
    /\ IF cancelFile
       THEN /\ progress_data' = [progress_data EXCEPT
                   !.status = "cancelled",
                   !.download = IF @.stage # "cancelled"
                                THEN Rec("cancelled", -1, Msg("Cancelled after download.", 0))
                                ELSE @]
            /\ BeginWrite(AsDoc(progress_data'))
            /\ observed' = TRUE
       ELSE /\ NoWrite
            /\ UNCHANGED <<progress_data, observed>>
    /\ pc' = "gate"
    /\ UNCHANGED <<cancelFile, tempFile, selected_clouds_list, download_cancelled,
                   new_file_size, temp_filepath_actual, dl, clouds_to_upload, up,
                   dashVars, uploadLog, cancelInDownload>>

\* worker.py 67-75: the sentinel is looked for once more before the uploads.
Recheck ==
    /\ At("recheck")
    /\ UNCHANGED <<regVars, envVars, loadVars, trackVars>>
    /\ IF cancelFile
       THEN /\ download_cancelled' = TRUE
            /\ progress_data' = [progress_data EXCEPT
                   !.status = "cancelled",
                   !.download = IF @.stage # "cancelled"
                                THEN Rec("cancelled", -1, Msg("Cancelled after download.", 0))
                                ELSE @]
            /\ BeginWrite(AsDoc(progress_data'))
            /\ observed' = TRUE
       ELSE /\ NoWrite
            /\ UNCHANGED <<download_cancelled, progress_data, observed>>
    /\ pc' = "gate"
    /\ UNCHANGED <<cancelFile, tempFile, selected_clouds_list, new_file_size,
                   temp_filepath_actual, dl, clouds_to_upload, up, dashVars, uploadLog,
                   cancelInDownload>>

\* clouds_to_upload = [cloud for cloud in CLOUDS if cloud['name'] in selected_clouds_list]
CloudsToUpload(selected) == SelectSeq(CLOUDS, LAMBDA c : c \in Range(selected))

\* The upload loop's index, and the upload task's locals: existing_size as the
\* last size check computed it and whether the listing it came from succeeded,
\* the progress tracker's bytes_transferred.
NoUpload == [idx |-> 0, existing_size |-> 0, listing_ok |-> TRUE, bytes_transferred |-> 0]

\* A variant of the gate that lets an empty file through to the uploads; C5
\* tells it from the code's gate.
ShouldUpload_AllowsEmpty(cancelled, size, selected) ==
    ~cancelled /\ size >= 0 /\ selected # << >>

\* worker.py 77: not download_cancelled and new_file_size > 0 and selected_clouds_list
ShouldUpload(cancelled, size, selected) ==
    ~cancelled /\ size > 0 /\ selected # << >>

\* worker.py 77-95: the uploads are started, or skipped (cancelled, zero bytes,
\* nothing selected).
Gate ==
    /\ At("gate")
    /\ UNCHANGED <<regVars, envVars, loadVars, trackVars>>
    /\ IF ShouldUpload(download_cancelled, new_file_size, selected_clouds_list)
       THEN /\ clouds_to_upload' = CloudsToUpload(selected_clouds_list)
            /\ IF clouds_to_upload' # << >>
               THEN pc' = "up_begin" /\ up' = [NoUpload EXCEPT !.idx = 1]
               ELSE pc' = "final" /\ UNCHANGED up
            /\ UNCHANGED progress_data
       ELSE /\ progress_data' =
                 IF ~download_cancelled /\ new_file_size <= 0
                 THEN [progress_data EXCEPT
                          !.status = "failed",
                          !.download.message =
                              IF progress_data.download.stage # "failed"
                              THEN Msg("Download resulted in 0 bytes file.", 0) ELSE @]
                 ELSE progress_data
            /\ pc' = "final"
            /\ UNCHANGED <<clouds_to_upload, up>>
    /\ UNCHANGED <<fileVars, wr, wdoc, selected_clouds_list, download_cancelled,
                   new_file_size, temp_filepath_actual, dl, dashVars, histVars>>

\* worker.py 97-110.
Final ==
    /\ At("final")
    /\ UNCHANGED <<regVars, envVars, loadVars, trackVars>>
    /\ progress_data' = [progress_data EXCEPT
           !.status = FinalStatus(download_cancelled, progress_data, selected_clouds_list)]
    /\ pc' = "fin_temp"
    /\ UNCHANGED <<fileVars, wr, wdoc, selected_clouds_list, download_cancelled,
                   new_file_size, temp_filepath_actual, dl, clouds_to_upload, up,
                   dashVars, histVars>>

\* A variant of the cleanup that leaves the temp file behind; C1 tells it
\* from the code's cleanup.
FinTemp_KeepsFile ==
    /\ At("fin_temp")
    /\ UNCHANGED <<regVars, envVars, loadVars, trackVars>>
    /\ pc' = "fin_cancel"
    /\ UNCHANGED <<statusFile, cancelFile, tempFile, wr, wdoc, selected_clouds_list,
                   progress_data, download_cancelled, new_file_size,
                   temp_filepath_actual, dl, clouds_to_upload, up, dashVars, histVars>>

\* worker.py 125-131: the temp file is removed if it exists.
FinTemp ==
    /\ At("fin_temp")
    /\ UNCHANGED <<regVars, envVars, loadVars, trackVars>>
    /\ tempFile' = FALSE
    /\ pc' = "fin_cancel"
    /\ UNCHANGED <<statusFile, cancelFile, wr, wdoc, selected_clouds_list, progress_data,
                   download_cancelled, new_file_size, temp_filepath_actual, dl,
                   clouds_to_upload, up, dashVars, histVars>>

\* worker.py 135-140: the sentinel is removed if it exists.
FinCancel ==
    /\ At("fin_cancel")
    /\ UNCHANGED <<regVars, envVars, loadVars, trackVars>>
    /\ cancelFile' = FALSE
    /\ pc' = "fin_write"
    /\ UNCHANGED <<statusFile, tempFile, wr, wdoc, selected_clouds_list, progress_data,
                   download_cancelled, new_file_size, temp_filepath_actual, dl,
                   clouds_to_upload, up, dashVars, histVars>>

\* worker.py 143-147: the final status document is written.
FinWrite ==
    /\ At("fin_write")
    /\ UNCHANGED <<regVars, envVars, loadVars, trackVars>>
    /\ BeginWrite(AsDoc(progress_data))
    /\ pc' = "done"
    /\ UNCHANGED <<cancelFile, tempFile, selected_clouds_list, progress_data,
                   download_cancelled, new_file_size, temp_filepath_actual, dl,
                   clouds_to_upload, up, dashVars, histVars>>

\* The worker process has exited.
WorkerExited == pc = "done" /\ wr = "idle"

\* ---------------------------------- tasks.py upload_file_to_cloud_task

\* The destination the upload loop is at.
Cloud == clouds_to_upload[up.idx]

\* progress_data['clouds'][cloud_name] = record
SetCloud(record) == [progress_data EXCEPT !.clouds[Cloud] = record]

\* worker.py 80-85: the task returned; the loop goes to the next destination,
\* or ends.
LoopNext(u) ==
    IF u.idx < Len(clouds_to_upload)
    THEN pc' = "up_begin" /\ up' = [u EXCEPT !.idx = @ + 1, !.bytes_transferred = 0]
    ELSE pc' = "final" /\ up' = [u EXCEPT !.bytes_transferred = 0]

\* A variant of the failure handling in which a failed destination ends the
\* whole upload loop; C6 tells it from the code's handling.
UploadFailed_Aborts(text) ==
    /\ progress_data' = SetCloud(Rec("failed", 0, Msg(text, 0)))
    /\ BeginWrite(AsDoc(progress_data'))
    /\ pc' = "final"
    /\ up' = [up EXCEPT !.bytes_transferred = 0]

\* A variant of the failure handling that goes on to the next destination
\* and leaves the failed one's record in the stage it had; C13 tells it from
\* the code's handling.
UploadFailed_KeepsStage(text) ==
    /\ UNCHANGED progress_data
    /\ NoWrite
    /\ LoopNext(up)

\* tasks.py 400-403 and 415-417: an exception of the task body ends this
\* destination with stage 'failed'.
UploadFailed(text) ==
    /\ progress_data' = SetCloud(Rec("failed", 0, Msg(text, 0)))
    /\ BeginWrite(AsDoc(progress_data'))
    /\ LoopNext(up)

\* A variant of the upload task's first step that looks for the sentinel and
\* gives up the uploads when it is there; C31 tells it from the code's task.
UpBegin_ChecksSentinel ==
    /\ At("up_begin")
    /\ UNCHANGED <<regVars, envVars, loadVars, trackVars>>
    /\ IF cancelFile
       THEN /\ download_cancelled' = TRUE
            /\ observed' = TRUE
            /\ pc' = "final"
            /\ NoWrite
            /\ UNCHANGED <<progress_data, uploadLog>>
       ELSE /\ progress_data' = SetCloud(Rec("pending", 0, Msg("Waiting...", 0)))
            /\ BeginWrite(AsDoc(progress_data'))
            /\ uploadLog' = Append(uploadLog, Cloud)
            /\ pc' = "up_init"
            /\ UNCHANGED <<download_cancelled, observed>>
    /\ UNCHANGED <<cancelFile, tempFile, selected_clouds_list,
                   new_file_size, temp_filepath_actual, dl, clouds_to_upload, up,
                   dashVars, cancelInDownload>>

\* tasks.py 341-343.
UpBegin ==
    /\ At("up_begin")
    /\ UNCHANGED <<regVars, envVars, loadVars, trackVars>>
    /\ progress_data' = SetCloud(Rec("pending", 0, Msg("Waiting...", 0)))
    /\ BeginWrite(AsDoc(progress_data'))
    /\ uploadLog' = Append(uploadLog, Cloud)
    /\ pc' = "up_init"
    /\ UNCHANGED <<cancelFile, tempFile, selected_clouds_list, download_cancelled,
                   new_file_size, temp_filepath_actual, dl, clouds_to_upload, up,
                   dashVars, observed, cancelInDownload>>

\* The destinations the size check is made for (tasks.py 359).
SizeChecked == {R2_NAME, OCI_NAME}

\* tasks.py 350-363: the client is initialised (or not: ConnectionError), and
\* stage 'checking' written for a destination with the size check.
UpInit ==
    /\ At("up_init")
    /\ UNCHANGED <<regVars, envVars, loadVars, trackVars>>
    /\ \/ UploadFailed("Upload failed: Client initialization failed")
       \/ /\ Cloud \in SizeChecked
          /\ progress_data' = [progress_data EXCEPT
                 !.clouds[Cloud].stage = "checking",
                 !.clouds[Cloud].message = Msg("Checking bucket size", 0)]
          /\ BeginWrite(AsDoc(progress_data'))
          /\ pc' = "up_check"
          /\ UNCHANGED up
       \/ /\ Cloud \notin SizeChecked
          /\ pc' = "up_pre"
          /\ NoWrite
          /\ UNCHANGED <<progress_data, up>>
    /\ UNCHANGED <<cancelFile, tempFile, selected_clouds_list, download_cancelled,
                   new_file_size, temp_filepath_actual, dl, clouds_to_upload,
                   dashVars, histVars>>

\* What a limited bucket may hold: nothing, just under, at and above the limit.
BucketSizes ==
    LET limit == (SIZE_LIMIT_GB_x2 * GB) \div 2
    IN  {0, limit - 1, limit, limit + (GB \div 8), limit + GB}

\* os.path.getsize(temp_filepath): the bytes the download wrote.
FileSize == dl.downloaded_size

\* tasks.py 364-376: the size check.  The bucket holds bucket_bytes; listing
\* it may fail.
UpCheck ==
    /\ At("up_check")
    /\ UNCHANGED <<regVars, envVars, loadVars, trackVars>>
    /\ IF ~tempFile
       THEN UploadFailed("Upload failed: Temporary file not found")
       ELSE \E bucket_bytes \in BucketSizes, listing_ok \in BOOLEAN :
              LET existing_size == get_bucket_size(listing_ok, bucket_bytes)
              IN  IF ExceedsLimit(existing_size, FileSize)
                  THEN /\ progress_data' = SetCloud(Rec("skipped", 0,
                              Msg("Skipped: Would exceed limit by GB (hundredths)",
                                  FormatGB2(Excess_x2(existing_size, FileSize)))))
                       /\ BeginWrite(AsDoc(progress_data'))
                       /\ LoopNext([up EXCEPT !.existing_size = existing_size,
                                               !.listing_ok = listing_ok])
                  ELSE /\ up' = [up EXCEPT !.existing_size = existing_size,
                                           !.listing_ok = listing_ok]
                       /\ pc' = "up_pre"
                       /\ NoWrite
                       /\ UNCHANGED progress_data
    /\ UNCHANGED <<cancelFile, tempFile, selected_clouds_list, download_cancelled,
                   new_file_size, temp_filepath_actual, dl, clouds_to_upload,
                   dashVars, histVars>>

\* tasks.py 379-391: the file is looked at again; a file of 0 bytes is
\* skipped, otherwise stage 'uploading' is written and the tracker created.
UpPre ==
    /\ At("up_pre")
    /\ UNCHANGED <<regVars, envVars, loadVars, trackVars>>
    /\ IF ~tempFile
       THEN UploadFailed("Upload failed: Temporary file not found before upload")
       ELSE IF FileSize = 0
       THEN /\ progress_data' = SetCloud(Rec("skipped", 0,
                                             Msg("Skipped: File size is 0 bytes.", 0)))
            /\ BeginWrite(AsDoc(progress_data'))
            /\ LoopNext(up)
       ELSE /\ progress_data' = [progress_data EXCEPT
                   !.clouds[Cloud].stage = "uploading",
                   !.clouds[Cloud].percentage = 0,
                   !.clouds[Cloud].message = Msg("0 MB of MB (Starting...)", FileSize)]
            /\ BeginWrite(AsDoc(progress_data'))
            /\ up' = [up EXCEPT !.bytes_transferred = 0]
            /\ pc' = "up_xfer"
    /\ UNCHANGED <<cancelFile, tempFile, selected_clouds_list, download_cancelled,
                   new_file_size, temp_filepath_actual, dl, clouds_to_upload,
                   dashVars, histVars>>

\* tasks.py 217-242, ProgressTracker.__call__(new_bytes), called by
\* client.upload_file (tasks.py 394) as parts are sent.
UpCallback ==
    /\ At("up_xfer")
    /\ UNCHANGED <<regVars, envVars, loadVars, trackVars>>
    /\ up.bytes_transferred < FileSize
    /\ LET sent == up.bytes_transferred + 1
       IN  /\ up' = [up EXCEPT !.bytes_transferred = sent]
           /\ progress_data' = SetCloud(Rec("uploading", Percentage(sent, FileSize),
                                            Msg("MB of MB", sent)))
    /\ BeginWrite(AsDoc(progress_data'))
    /\ UNCHANGED <<cancelFile, tempFile, pc, selected_clouds_list, download_cancelled,
                   new_file_size, temp_filepath_actual, dl, clouds_to_upload,
                   dashVars, histVars>>

\* client.upload_file raises (tasks.py 394, 400-403, 415).
UpRaise ==
    /\ At("up_xfer")
    /\ UNCHANGED <<regVars, envVars, loadVars, trackVars>>
    /\ UploadFailed("Upload failed: ")
    /\ UNCHANGED <<cancelFile, tempFile, selected_clouds_list, download_cancelled,
                   new_file_size, temp_filepath_actual, dl, clouds_to_upload,
                   dashVars, histVars>>

\* tasks.py 394-407: client.upload_file returns; stage 'generating_url'.
UpSent ==
    /\ At("up_xfer")
    /\ UNCHANGED <<regVars, envVars, loadVars, trackVars>>
    /\ up.bytes_transferred = FileSize
    /\ progress_data' = [progress_data EXCEPT
           !.clouds[Cloud].stage = "generating_url",
           !.clouds[Cloud].message = Msg("Generating URL...", 0)]
    /\ BeginWrite(AsDoc(progress_data'))
    /\ pc' = "up_url"
    /\ UNCHANGED <<cancelFile, tempFile, selected_clouds_list, download_cancelled,
                   new_file_size, temp_filepath_actual, dl, clouds_to_upload, up,
                   dashVars, histVars>>

\* tasks.py 408-414: the message of a completed destination.  Oracle Cloud
\* gets its public URL (namespace, region, bucket and file name are all set);
\* the others a presigned URL, which generate_presigned_url may fail to make.
CompletedMsg(cloud, presigned_ok) ==
    IF cloud = OCI_NAME THEN Msg("Complete. Public (Permanent*): url", 0)
    ELSE IF presigned_ok THEN Msg("Complete. Presigned (7 days): url", 0)
    ELSE Msg("Complete (URL generation failed).", 0)

\* tasks.py 408-417: stage 'completed' is written.
UpUrl ==
    /\ At("up_url")
    /\ UNCHANGED <<regVars, envVars, loadVars, trackVars>>
    /\ \E presigned_ok \in BOOLEAN :
         progress_data' = SetCloud(Rec("completed", 100, CompletedMsg(Cloud, presigned_ok)))
    /\ BeginWrite(AsDoc(progress_data'))
    /\ LoopNext(up)
    /\ UNCHANGED <<cancelFile, tempFile, selected_clouds_list, download_cancelled,
                   new_file_size, temp_filepath_actual, dl, clouds_to_upload,
                   dashVars, histVars>>

\* -------------------------------------------------- app.py dashboard

\* get_job_progress returning None (the "critical error" branch).
ReadFailed == Doc("None", NoMsg, EmptyRec, NoClouds)

\* A variant of the read in which a half-written document is a failed read;
\* C8 tells it from the code's read.
get_job_progress_StrictRead(cancel_exists, file, master_status) ==
    IF cancel_exists THEN Doc("cancelling", NoMsg, EmptyRec, NoClouds)
    ELSE CASE file.kind = "absent" ->
                Doc(IF master_status = "processing" THEN "processing" ELSE "pending",
                    NoMsg, EmptyRec, NoClouds)
           [] file.kind = "empty" ->
                Doc("processing", Msg("Worker initializing...", 0), EmptyRec, NoClouds)
           [] file.kind = "json" -> file.data
           [] OTHER -> ReadFailed

\* app.py 71-105, get_job_progress: what the dashboard reads for a job, given
\* whether the sentinel exists, the status file and the job's status in the
\* session's list.
get_job_progress(cancel_exists, file, master_status) ==
    IF cancel_exists THEN Doc("cancelling", NoMsg, EmptyRec, NoClouds)
    ELSE CASE file.kind = "absent" ->
                Doc(IF master_status = "processing" THEN "processing" ELSE "pending",
                    NoMsg, EmptyRec, NoClouds)
           [] file.kind = "empty" ->
                Doc("processing", Msg("Worker initializing...", 0), EmptyRec, NoClouds)
           [] file.kind = "partial" ->
                Doc("processing", Msg("Reading status failed: ", 0), EmptyRec, NoClouds)
           [] file.kind = "json" -> file.data
           [] OTHER -> ReadFailed

\* app.py 241-247: the status shown for a job, from the session's list and
\* from what get_job_progress read.
MergeStatus(status_from_master_list, status_from_file) ==
    IF status_from_file = "cancelling" THEN "cancelling"
    ELSE IF status_from_master_list = "processing"
            /\ (status_from_file = "" \/ status_from_file = "pending")
    THEN "processing"
    ELSE IF status_from_file # "" THEN status_from_file
    ELSE IF status_from_master_list # "" THEN status_from_master_list
    ELSE "pending"

\* app.py 260-261 and 268-281: the button rendered beside the job.
ButtonFor(status, job_progress) ==
    LET dl_stage == IF job_progress.download.stage = "none" THEN "pending"
                    ELSE job_progress.download.stage
    IN  IF status = "processing" /\ dl_stage = "downloading" THEN "cancel"
        ELSE IF status = "pending" THEN "remove"
        ELSE "none"

\* The job's status and button after one pass of the display loop (app.py
\* 218-256) over the files as they are.
Displayed(file) ==
    LET job_progress == get_job_progress(cancelFile, file, job_status)
        status == MergeStatus(job_status, job_progress.status)
    IN  IF job_progress = ReadFailed
        THEN [status |-> "error (read failed)", button |-> "none"]
        ELSE [status |-> status, button |-> ButtonFor(status, job_progress)]

InRegistry == job_status # "removed"

\* app.py 218-256: a run of the script that displays the job.
Display ==
    /\ InRegistry
    /\ UNCHANGED <<regVars, envVars, loadVars, trackVars>>
    /\ job_status' = Displayed(statusFile).status
    /\ button' = Displayed(statusFile).button
    /\ UNCHANGED <<fileVars, workerVars, histVars>>

\* The document the dispatcher writes before launching the worker (app.py 174).
InitialStatus == Doc("processing", NoMsg, Rec("pending", -1, NoMsg), NoClouds)

\* app.py 159-189, "Process All Pending Jobs": the initial document is
\* written and the worker launched.  When the launch raises, nothing is
\* marked, no rerun is asked for, and the same run goes on to display the job.
Dispatch ==
    /\ InRegistry
    /\ UNCHANGED <<regVars, envVars, loadVars, trackVars>>
    /\ job_status = "pending"
    /\ pc = "idle"
    /\ statusFile' = File("json", InitialStatus)
    /\ \/ /\ pc' = "start"
          /\ job_status' = "processing"
          /\ button' = "none"
       \/ /\ job_status' = Displayed(statusFile').status
          /\ button' = Displayed(statusFile').button
          /\ UNCHANGED pc
    /\ UNCHANGED <<cancelFile, tempFile, wr, wdoc, selected_clouds_list, progress_data,
                   download_cancelled, new_file_size, temp_filepath_actual, dl,
                   clouds_to_upload, up, histVars>>

\* app.py 268-277, the Cancel button: the sentinel is created and the job
\* marked 'cancelling'.
Cancel ==
    /\ InRegistry
    /\ UNCHANGED <<regVars, envVars, loadVars, trackVars>>
    /\ button = "cancel"
    /\ cancelFile' = TRUE
    /\ job_status' = "cancelling"
    /\ button' = "none"
    /\ cancelInDownload' = (cancelInDownload \/ InDownloadTask)
    /\ UNCHANGED <<statusFile, tempFile, workerVars, observed, uploadLog>>

\* app.py 279-281 and 314-329, the Remove button: the job leaves the list and
\* its status file is deleted.
Remove ==
    /\ InRegistry
    /\ UNCHANGED <<regVars, envVars, loadVars, trackVars>>
    /\ button = "remove"
    /\ job_status' = "removed"
    /\ button' = "none"
    /\ statusFile' = File("absent", NoDoc)
    /\ UNCHANGED <<cancelFile, tempFile, workerVars, histVars>>

\* app.py 193-202, "Clear Finished/Failed/Cancelled Jobs".
Clear ==
    /\ InRegistry
    /\ UNCHANGED <<regVars, envVars, loadVars, trackVars>>
    /\ job_status \in TERMINAL
    /\ job_status' = "removed"
    /\ button' = "none"
    /\ UNCHANGED <<fileVars, workerVars, histVars>>

\* ------------------------------------------------------ specification

\* worker.py 15-27 and 49-51: the worker's state as main() sets it up, for a
\* job that is in the registry and pending.  job_status/ outlives the jobs: a
\* sentinel of an earlier job of the same job_id may still lie there (the case
\* of worker.py 34-39).
\* ------------------------------------------- the registry (app.py)
\* The registry of jobs: the list each dashboard session holds in
\* st.session_state.jobs and the copy save_state persists in
\* job_status/master_job_list.json.  Several sessions share the file and the
\* status documents; each session loads the file once.

\* Jobs added over a run, all sessions together.
MaxAdds == 2
\* Seconds the clock advances over a run.
MaxTime == 1

\* Dashboard sessions (browser tabs) open at the same time.
Sessions == {"s1", "s2"}

Filenames == {"a.zip", "b.bin", "c.iso"}

\* hash(filename): Python's string hash, a machine integer.  "a.zip" and
\* "b.bin" stand for two names whose hashes agree in the low 16 bits.
Hash(filename) ==
    CASE filename = "a.zip" -> 5
      [] filename = "b.bin" -> 65536 * 3 + 5
      [] OTHER -> 65536 * 7 + 4660

\* job_id = f"job_{int(time.time())}_{hash(filename) & 0xffff}"
JobId(time, filename) == [t |-> time, h |-> Hash(filename) % 65536]

JobIds == {JobId(t, f) : t \in 0..MaxTime, f \in Filenames}

\* new_job = {'job_id': ..., 'filename': ..., 'status': 'pending', ...}
NewJob(time, filename) ==
    [job_id |-> JobId(time, filename), filename |-> filename, status |-> "pending"]

\* The status document of a job as the dashboard finds it on disk, d being
\* the documents' statuses at the time of the read.
DocFile(d, id) ==
    IF d[id] = "absent" THEN File("absent", NoDoc)
    ELSE File("json", Doc(d[id], NoMsg, EmptyRec, NoClouds))

\* get_job_progress's scan of the session's list for the job's status: the
\* first entry with that job_id.
MasterStatus(jobs, id) ==
    LET hits == {i \in 1..Len(jobs) : jobs[i].job_id = id}
    IN IF hits = {} THEN "pending"
       ELSE jobs[CHOOSE i \in hits : \A j \in hits : i <= j].status

\* The display loop over the session's jobs from index i on: each entry's
\* status is merged with its status document; a change to a terminal status
\* saves the list.
RECURSIVE DisplayLoop(_, _, _, _)
DisplayLoop(i, jobs, saved, d) ==
    IF i > Len(jobs) THEN [jobs |-> jobs, saved |-> saved]
    ELSE LET job == jobs[i]
             job_progress == get_job_progress(FALSE, DocFile(d, job.job_id),
                                              MasterStatus(jobs, job.job_id))
             status == MergeStatus(job.status, job_progress.status)
             changed == job.status # status
             jobs2 == IF changed THEN [jobs EXCEPT ![i].status = status] ELSE jobs
         IN DisplayLoop(i + 1, jobs2,
                        IF changed /\ status \in TERMINAL THEN jobs2 ELSE saved, d)

\* Indices of the pending entries, in list order.
PendingIdx(jobs) == {i \in 1..Len(jobs) : jobs[i].status = "pending"}

\* Number of entries of ix whose job has the given id.
Count(jobs, ix, id) == Cardinality({i \in ix : jobs[i].job_id = id})

RegInit ==
    /\ masterFile = << >>
    /\ session = [s \in Sessions |-> [loaded |-> FALSE, jobs |-> << >>]]
    /\ now = 0
    /\ docs = [id \in JobIds |-> "absent"]
    /\ running = [id \in JobIds |-> 0]
    /\ launched = [id \in JobIds |-> 0]
    /\ added = 0

\* A session's first script run: 'jobs' is not in st.session_state, so the
\* list is loaded from the master file.
Load(s) ==
    /\ ~session[s].loaded
    /\ session' = [session EXCEPT ![s] = [loaded |-> TRUE, jobs |-> masterFile]]
    /\ UNCHANGED <<masterFile, now, docs, running, launched, added>>
    /\ UNCHANGED <<fileVars, workerVars, dashVars, histVars, envVars, loadVars, trackVars>>

\* time.time() advances.
Tick ==
    /\ now < MaxTime
    /\ now' = now + 1
    /\ UNCHANGED <<masterFile, session, docs, running, launched, added>>
    /\ UNCHANGED <<fileVars, workerVars, dashVars, histVars, envVars, loadVars, trackVars>>

\* "Add to Queue": the new entry is appended and the list saved.
AddJob(s, filename) ==
    /\ session[s].loaded
    /\ added < MaxAdds
    /\ added' = added + 1
    /\ LET jobs == Append(session[s].jobs, NewJob(now, filename))
       IN /\ session' = [session EXCEPT ![s].jobs = jobs]
          /\ masterFile' = jobs
    /\ UNCHANGED <<now, docs, running, launched>>
    /\ UNCHANGED <<fileVars, workerVars, dashVars, histVars, envVars, loadVars, trackVars>>

\* "Process All Pending Jobs": for every pending entry the initial status
\* document is written and a worker launched; the entries whose launch
\* succeeded (ok) are marked processing.  A launch fails before the document
\* is written (os.makedirs, open) or after it (the log files, Popen): wrote
\* holds the entries whose document was written.  With at least one launch
\* the list is saved and the script reruns; with none the run goes on to the
\* display loop, which reads the documents just written.
DispatchAll(s) ==
    /\ session[s].loaded
    /\ PendingIdx(session[s].jobs) # {}
    /\ LET jobs == session[s].jobs
           pending == PendingIdx(jobs)
       IN \E ok \in SUBSET pending, wrote \in SUBSET pending :
            LET marked == [i \in 1..Len(jobs) |->
                             IF i \in ok THEN [jobs[i] EXCEPT !.status = "processing"]
                             ELSE jobs[i]]
                written == {jobs[i].job_id : i \in wrote}
            IN /\ ok \subseteq wrote
               /\ docs' = [id \in JobIds |->
                             IF id \in written THEN "processing" ELSE docs[id]]
               /\ running' = [id \in JobIds |-> running[id] + Count(jobs, ok, id)]
               /\ launched' = [id \in JobIds |-> launched[id] + Count(jobs, ok, id)]
               /\ IF ok # {}
                  THEN /\ session' = [session EXCEPT ![s].jobs = marked]
                       /\ masterFile' = marked
                  ELSE LET shown == DisplayLoop(1, jobs, masterFile, docs')
                       IN /\ session' = [session EXCEPT ![s].jobs = shown.jobs]
                          /\ masterFile' = shown.saved
    /\ UNCHANGED <<now, added>>
    /\ UNCHANGED <<fileVars, workerVars, dashVars, histVars, envVars, loadVars, trackVars>>

\* A running worker of the job exits: its last write leaves a final status.
WorkerFinish(id) ==
    /\ running[id] > 0
    /\ \E final \in {"completed", "failed"} :
         docs' = [docs EXCEPT ![id] = final]
    /\ running' = [running EXCEPT ![id] = @ - 1]
    /\ UNCHANGED <<masterFile, session, now, launched, added>>
    /\ UNCHANGED <<fileVars, workerVars, dashVars, histVars, envVars, loadVars, trackVars>>

\* A script run of a session that only displays its jobs.
DisplayJobs(s) ==
    /\ session[s].loaded
    /\ session[s].jobs # << >>
    /\ LET shown == DisplayLoop(1, session[s].jobs, masterFile, docs)
       IN /\ session' = [session EXCEPT ![s].jobs = shown.jobs]
          /\ masterFile' = shown.saved
    /\ UNCHANGED <<now, docs, running, launched, added>>
    /\ UNCHANGED <<fileVars, workerVars, dashVars, histVars, envVars, loadVars, trackVars>>

\* "Remove" on entry i, offered while the entry is displayed as pending: the
\* entry is dropped, its status document deleted, the list saved.
RemoveJob(s, i) ==
    /\ session[s].loaded
    /\ i \in 1..Len(session[s].jobs)
    /\ LET shown == DisplayLoop(1, session[s].jobs, masterFile, docs)
           jobs == [k \in 1..(Len(shown.jobs) - 1) |->
                      IF k < i THEN shown.jobs[k] ELSE shown.jobs[k + 1]]
       IN /\ shown.jobs[i].status = "pending"
          /\ session' = [session EXCEPT ![s].jobs = jobs]
          /\ masterFile' = jobs
          /\ docs' = [docs EXCEPT ![shown.jobs[i].job_id] = "absent"]
    /\ UNCHANGED <<now, running, launched, added>>
    /\ UNCHANGED <<fileVars, workerVars, dashVars, histVars, envVars, loadVars, trackVars>>

\* A variant of the bulk clear that keeps the pending entries only; C28 tells
\* it from the code's clear.
ClearJobs_KeepsPendingOnly(s) ==
    /\ session[s].loaded
    /\ \E i \in 1..Len(session[s].jobs) : session[s].jobs[i].status \in TERMINAL
    /\ LET jobs == SelectSeq(session[s].jobs, LAMBDA j : j.status = "pending")
       IN /\ session' = [session EXCEPT ![s].jobs = jobs]
          /\ masterFile' = jobs
    /\ UNCHANGED <<now, docs, running, launched, added>>
    /\ UNCHANGED <<fileVars, workerVars, dashVars, histVars, envVars, loadVars, trackVars>>

\* "Clear Finished/Failed/Cancelled Jobs".
ClearJobs(s) ==
    /\ session[s].loaded
    /\ \E i \in 1..Len(session[s].jobs) : session[s].jobs[i].status \in TERMINAL
    /\ LET jobs == SelectSeq(session[s].jobs,
                             LAMBDA j : j.status \in {"pending", "processing", "cancelling"})
       IN /\ session' = [session EXCEPT ![s].jobs = jobs]
          /\ masterFile' = jobs
    /\ UNCHANGED <<now, docs, running, launched, added>>
    /\ UNCHANGED <<fileVars, workerVars, dashVars, histVars, envVars, loadVars, trackVars>>

\* ------------------------------- save_state and load_state (app.py)
\* The master file as text.  The text is a sequence of tokens: the brackets
\* and braces of JSON, the keys of a job and its string values; json.dump
\* writes it piece by piece into the file that open(..., 'w') truncated.

\* Entries of a list handed to save_state.
MaxListLen == 2

\* A job as load and save see it: a dict of strings and a list of strings.
SavedJobs ==
    {[job_id |-> "job_0_5", status |-> "pending", selected_clouds |-> << >>],
     [job_id |-> "job_1_5", status |-> "completed",
      selected_clouds |-> <<"Wasabi", "Oracle Cloud">>]}

JobLists == UNION {[1..n -> SavedJobs] : n \in 0..MaxListLen}

Structural == {"[", "]", "{", "}", "job_id", "status", "selected_clouds"}

RECURSIVE Concat(_)
Concat(seqs) == IF seqs = << >> THEN << >> ELSE Head(seqs) \o Concat(Tail(seqs))

\* json.dump of one job.
DumpJob(job) ==
    <<"{", "job_id", job.job_id, "status", job.status, "selected_clouds", "[">>
        \o job.selected_clouds \o <<"]", "}">>

\* json.dump(job_list, f, indent=4): the whole text.
Dump(jobs) == <<"[">> \o Concat([i \in 1..Len(jobs) |-> DumpJob(jobs[i])]) \o <<"]">>

ParseError == [ok |-> FALSE, val |-> << >>, next |-> 0]

\* The strings of a list up to its closing bracket, from position i.
RECURSIVE ParseStrings(_, _, _)
ParseStrings(text, i, acc) ==
    IF i > Len(text) THEN ParseError
    ELSE IF text[i] = "]" THEN [ok |-> TRUE, val |-> acc, next |-> i + 1]
    ELSE IF text[i] \in Structural THEN ParseError
    ELSE ParseStrings(text, i + 1, Append(acc, text[i]))

\* One job object from position i.
ParseJob(text, i) ==
    IF /\ i + 6 <= Len(text)
       /\ text[i] = "{" /\ text[i + 1] = "job_id" /\ text[i + 2] \notin Structural
       /\ text[i + 3] = "status" /\ text[i + 4] \notin Structural
       /\ text[i + 5] = "selected_clouds" /\ text[i + 6] = "["
    THEN LET clouds == ParseStrings(text, i + 7, << >>)
         IN  IF clouds.ok /\ clouds.next <= Len(text) /\ text[clouds.next] = "}"
             THEN [ok |-> TRUE,
                   val |-> [job_id |-> text[i + 2], status |-> text[i + 4],
                            selected_clouds |-> clouds.val],
                   next |-> clouds.next + 1]
             ELSE ParseError
    ELSE ParseError

\* The job objects of the outer list from position i, up to the bracket that
\* must end the text.
RECURSIVE ParseJobs(_, _, _)
ParseJobs(text, i, acc) ==
    IF i > Len(text) THEN ParseError
    ELSE IF text[i] = "]"
         THEN IF i = Len(text) THEN [ok |-> TRUE, val |-> acc, next |-> i + 1]
              ELSE ParseError
    ELSE LET job == ParseJob(text, i)
         IN  IF job.ok THEN ParseJobs(text, job.next, Append(acc, job.val))
             ELSE ParseError

\* json.loads(content) for a text that opens a list: the list, or
\* JSONDecodeError.
json_loads(text) ==
    IF text # << >> /\ text[1] = "[" THEN ParseJobs(text, 2, << >>) ELSE ParseError

\* What load_state hands back: the list, whether it raised, and whether the
\* user was told (st.warning, st.error).
Loaded(jobs, told) == [jobs |-> jobs, raised |-> FALSE, told |-> told]

\* A variant of load_state that lets the decoding error of json.loads
\* through; C16 tells it from the code's load_state.
load_state_Undecoded(state_loaded, session_jobs, file) ==
    IF state_loaded THEN Loaded(session_jobs, FALSE)
    ELSE IF ~file.exists THEN Loaded(<< >>, FALSE)
    ELSE IF file.text = << >> THEN Loaded(<< >>, FALSE)
    ELSE IF ~file.readable THEN Loaded(<< >>, TRUE)
    ELSE IF file.text[1] # "[" \/ file.text[Len(file.text)] # "]"
         THEN Loaded(<< >>, TRUE)
    ELSE IF json_loads(file.text).ok THEN Loaded(json_loads(file.text).val, FALSE)
    ELSE [jobs |-> << >>, raised |-> TRUE, told |-> FALSE]

\* app.py 29-69, load_state: STATE_LOADED, the session's list, and the file.
\* A file that cannot be opened or decoded as text (readable = FALSE) raises
\* inside the try and is caught by "except Exception".
load_state(state_loaded, session_jobs, file) ==
    IF state_loaded THEN Loaded(session_jobs, FALSE)
    ELSE IF ~file.exists THEN Loaded(<< >>, FALSE)
    ELSE IF file.text = << >> THEN Loaded(<< >>, FALSE)
    ELSE IF ~file.readable THEN Loaded(<< >>, TRUE)
    ELSE IF file.text[1] # "[" \/ file.text[Len(file.text)] # "]"
         THEN Loaded(<< >>, TRUE)
    ELSE IF json_loads(file.text).ok THEN Loaded(json_loads(file.text).val, FALSE)
    ELSE Loaded(<< >>, TRUE)

MasterFile(exists, readable, text) ==
    [exists |-> exists, readable |-> readable, text |-> text]

\* Contents that no save_state wrote: blanks, a JSON object, other text,
\* other text between brackets.
ForeignTexts == {<<" ">>, <<"{", "}">>, <<"garbage">>, <<"[", "garbage", "]">>}

LoadInit ==
    /\ master_state_file = MasterFile(FALSE, TRUE, << >>)
    /\ job_list = << >>
    /\ save_pc = "idle"
    /\ last_saved = << >>
    /\ loaded_jobs = Loaded(<< >>, FALSE)

\* save_state(job_list): open(MASTER_STATE_FILE, 'w') creates or truncates
\* the file.
SaveOpen(jobs) ==
    /\ save_pc = "idle"
    /\ save_pc' = "writing"
    /\ job_list' = jobs
    /\ master_state_file' = MasterFile(TRUE, TRUE, << >>)
    /\ UNCHANGED <<last_saved, loaded_jobs>>
    /\ UNCHANGED <<fileVars, workerVars, dashVars, histVars, envVars, regVars, trackVars>>

\* json.dump writes the next piece of the text.
SaveWrite ==
    /\ save_pc = "writing"
    /\ Len(master_state_file.text) < Len(Dump(job_list))
    /\ master_state_file' = [master_state_file EXCEPT
           !.text = SubSeq(Dump(job_list), 1, Len(@) + 1)]
    /\ UNCHANGED <<job_list, save_pc, last_saved, loaded_jobs>>
    /\ UNCHANGED <<fileVars, workerVars, dashVars, histVars, envVars, regVars, trackVars>>

\* The text is complete and the file closed.
SaveClose ==
    /\ save_pc = "writing"
    /\ master_state_file.text = Dump(job_list)
    /\ save_pc' = "idle"
    /\ last_saved' = job_list
    /\ job_list' = << >>
    /\ UNCHANGED <<master_state_file, loaded_jobs>>
    /\ UNCHANGED <<fileVars, workerVars, dashVars, histVars, envVars, regVars, trackVars>>

\* json.dump raises part-way (the disk is full); save_state's except branch
\* reports it and returns, the file staying as it is.
SaveFail ==
    /\ save_pc = "writing"
    /\ master_state_file.text # Dump(job_list)
    /\ save_pc' = "idle"
    /\ job_list' = << >>
    /\ UNCHANGED <<master_state_file, last_saved, loaded_jobs>>
    /\ UNCHANGED <<fileVars, workerVars, dashVars, histVars, envVars, regVars, trackVars>>

\* The file is replaced, made unreadable or deleted from outside the program.
Damage ==
    /\ save_pc = "idle"
    /\ \/ \E text \in ForeignTexts :
            master_state_file' = MasterFile(TRUE, TRUE, text)
       \/ /\ master_state_file.exists
          /\ master_state_file' = [master_state_file EXCEPT !.readable = FALSE]
       \/ master_state_file' = MasterFile(FALSE, TRUE, << >>)
    /\ UNCHANGED <<job_list, save_pc, last_saved, loaded_jobs>>
    /\ UNCHANGED <<fileVars, workerVars, dashVars, histVars, envVars, regVars, trackVars>>

\* A new session's script run: STATE_LOADED is False (app.py 12) and 'jobs'
\* is not in st.session_state, so load_state reads the file.
LoadState ==
    /\ loaded_jobs' = load_state(FALSE, << >>, master_state_file)
    /\ UNCHANGED <<master_state_file, job_list, save_pc, last_saved>>
    /\ UNCHANGED <<fileVars, workerVars, dashVars, histVars, envVars, regVars, trackVars>>

\* ------------------------------------- ProgressTracker (tasks.py)
\* One ProgressTracker, created by upload_file_to_cloud_task for one
\* destination, and the threads of client.upload_file (max_concurrency=10),
\* each of which calls it with the bytes it has just sent.

\* Largest file, in bytes the callbacks count.
MaxTotal == 3
\* Most bytes one callback reports.
MaxDelta == 2
\* Seconds the clock advances while the upload runs.
MaxClock == 2

Threads == {"t1", "t2"}

\* No tracker exists (total_size 0), no thread is in a call.
TrackInit ==
    /\ tracker = [total_size |-> 0, bytes_transferred |-> 0, last_time |-> 0]
    /\ lock = "free"
    /\ thr = [t \in Threads |-> [pc |-> "idle", new_bytes |-> 0, tmp |-> 0]]
    /\ clock = 0
    /\ unsent = 0
    /\ emitted = [n |-> 0, last |-> 0, gaps |-> {}, percentages |-> {},
                  contended |-> FALSE]

TrackFrame == UNCHANGED <<fileVars, workerVars, dashVars, histVars, envVars,
                          regVars, loadVars>>

\* ProgressTracker.__init__ (tasks.py 206-216), for a file of total bytes
\* (upload_file_to_cloud_task has returned already for a file of 0 bytes).
NewTracker(total) ==
    /\ tracker.total_size = 0
    /\ tracker' = [total_size |-> total, bytes_transferred |-> 0, last_time |-> clock]
    /\ unsent' = total
    /\ UNCHANGED <<lock, thr, clock, emitted>>
    /\ TrackFrame

\* time.time() advances.
TickClock ==
    /\ tracker.total_size > 0
    /\ clock < MaxClock
    /\ clock' = clock + 1
    /\ UNCHANGED <<tracker, lock, thr, unsent, emitted>>
    /\ TrackFrame

\* A transfer thread has sent n more bytes and calls the tracker.
Call(t, n) ==
    /\ thr[t].pc = "idle"
    /\ n <= unsent
    /\ unsent' = unsent - n
    /\ thr' = [thr EXCEPT ![t] = [pc |-> "acquire", new_bytes |-> n, tmp |-> 0]]
    /\ emitted' = [emitted EXCEPT !.contended = @ \/ lock # "free"]
    /\ UNCHANGED <<tracker, lock, clock>>
    /\ TrackFrame

\* A variant of the call that enters without waiting for the lock; C30 tells
\* it from the code's "with self._lock".
Acquire_NoLock(t) ==
    /\ thr[t].pc = "acquire"
    /\ lock' = t
    /\ thr' = [thr EXCEPT ![t].pc = "read"]
    /\ UNCHANGED <<tracker, clock, unsent, emitted>>
    /\ TrackFrame

\* tasks.py 218: with self._lock, entered when no other thread holds it.
Acquire(t) ==
    /\ thr[t].pc = "acquire"
    /\ lock = "free"
    /\ lock' = t
    /\ thr' = [thr EXCEPT ![t].pc = "read"]
    /\ UNCHANGED <<tracker, clock, unsent, emitted>>
    /\ TrackFrame

\* tasks.py 219, self.bytes_transferred += new_bytes: the attribute is read,
ReadTotal(t) ==
    /\ thr[t].pc = "read"
    /\ thr' = [thr EXCEPT ![t].pc = "add", ![t].tmp = tracker.bytes_transferred]
    /\ UNCHANGED <<tracker, lock, clock, unsent, emitted>>
    /\ TrackFrame

\* and the sum stored.
AddBytes(t) ==
    /\ thr[t].pc = "add"
    /\ tracker' = [tracker EXCEPT !.bytes_transferred = thr[t].tmp + thr[t].new_bytes]
    /\ thr' = [thr EXCEPT ![t].pc = "emit"]
    /\ UNCHANGED <<lock, clock, unsent, emitted>>
    /\ TrackFrame

\* tasks.py 220-242: the percentage is computed; when more than a second has
\* passed since last_time the speed is recomputed and last_time reset; the
\* destination's record is updated and update_job_progress called.  emitted
\* keeps the number of documents written, the time of the last one, the
\* times between one and the next, and the percentages.
Emit(t) ==
    /\ thr[t].pc = "emit"
    /\ LET percentage == Percentage(tracker.bytes_transferred, tracker.total_size)
       IN  /\ tracker' = [tracker EXCEPT
                  !.last_time = IF clock - @ > 1 THEN clock ELSE @]
           /\ emitted' = [emitted EXCEPT
                  !.n = @ + 1,
                  !.last = clock,
                  !.gaps = IF emitted.n > 0 THEN @ \cup {clock - emitted.last} ELSE @,
                  !.percentages = @ \cup {percentage}]
    /\ thr' = [thr EXCEPT ![t].pc = "release"]
    /\ UNCHANGED <<lock, clock, unsent>>
    /\ TrackFrame

\* The with block is left: the lock is released and the call returns.
Release(t) ==
    /\ thr[t].pc = "release"
    /\ lock' = "free"
    /\ thr' = [thr EXCEPT ![t] = [pc |-> "idle", new_bytes |-> 0, tmp |-> 0]]
    /\ UNCHANGED <<tracker, clock, unsent, emitted>>
    /\ TrackFrame

Init ==
    /\ statusFile = File("absent", NoDoc)
    /\ cancelFile \in BOOLEAN
    /\ tempFile = FALSE
    /\ pc = "idle"
    /\ wr = "idle"
    /\ wdoc = NoDoc
    /\ selected_clouds_list \in DistinctSeqs(SelectableNames, MaxSelected)
    /\ progress_data = [status |-> "processing", download |-> EmptyRec,
                        clouds |-> [c \in Range(selected_clouds_list) |-> EmptyRec]]
    /\ download_cancelled = FALSE
    /\ new_file_size = -2
    /\ temp_filepath_actual = FALSE
    /\ dl = [total_size |-> 0, downloaded_size |-> 0, percentage |-> 0]
    /\ clouds_to_upload = << >>
    /\ up = NoUpload
    /\ job_status = "pending"
    /\ button = "none"
    /\ observed = FALSE
    /\ uploadLog = << >>
    /\ cancelInDownload = FALSE
    /\ missing_vars \in BOOLEAN
    /\ RegInit
    /\ LoadInit
    /\ TrackInit

vars == <<fileVars, workerVars, dashVars, histVars, envVars, regVars, loadVars,
          trackVars>>

Worker ==
    \/ WImportExit \/ WStart \/ WStartRemove \/ WInitFailedRemove
    \/ DlBegin \/ DlRequest \/ DlChunk \/ DlEnd \/ DlRaise \/ DlExcept
    \/ DlCancelRemove \/ WorkerExcept
    \/ Recheck \/ Gate \/ Final
    \/ UpBegin \/ UpInit \/ UpCheck \/ UpPre \/ UpCallback \/ UpRaise \/ UpSent \/ UpUrl
    \/ FinTemp \/ FinCancel \/ FinWrite
    \/ WriteFlush \/ WriteClose

Dashboard == Display \/ Dispatch \/ Cancel \/ Remove \/ Clear

Next == Worker \/ Dashboard

Spec == Init /\ [][Next]_vars

NextReg ==
    \/ \E s \in Sessions : Load(s)
    \/ Tick
    \/ \E s \in Sessions, filename \in Filenames : AddJob(s, filename)
    \/ \E s \in Sessions : DispatchAll(s)
    \/ \E id \in JobIds : WorkerFinish(id)
    \/ \E s \in Sessions : DisplayJobs(s)
    \/ \E s \in Sessions, i \in 1..MaxAdds : RemoveJob(s, i)
    \/ \E s \in Sessions : ClearJobs(s)

\* The registry on its own: one job's worker and documents stay as
\* constructed.
InitReg ==
    /\ Init
    /\ cancelFile = FALSE
    /\ selected_clouds_list = << >>
    /\ ~missing_vars

SpecReg == InitReg /\ [][NextReg]_vars

NextLoad ==
    \/ \E jobs \in JobLists : SaveOpen(jobs)
    \/ SaveWrite
    \/ SaveClose
    \/ SaveFail
    \/ Damage
    \/ LoadState

\* The master file on its own, written by save_state and read by load_state.
SpecLoad == InitReg /\ [][NextLoad]_vars

NextTracker ==
    \/ \E total \in 1..MaxTotal : NewTracker(total)
    \/ TickClock
    \/ \E t \in Threads, n \in 1..MaxDelta : Call(t, n)
    \/ \E t \in Threads : Acquire(t)
    \/ \E t \in Threads : ReadTotal(t)
    \/ \E t \in Threads : AddBytes(t)
    \/ \E t \in Threads : Emit(t)
    \/ \E t \in Threads : Release(t)

\* One ProgressTracker on its own, called by the transfer threads.
SpecTracker == InitReg /\ [][NextTracker]_vars

\* The worker process keeps running once launched, and the dashboard keeps
\* re-running its script, reading the job's files each time.
FairSpec == Spec /\ WF_vars(Worker) /\ WF_vars(Display)

\* ------------------------------------------------------------- claims

\* The document the status file holds (NoDoc unless the file is complete).
Written == statusFile.data

\* The worker got past its initialisation (worker.py 32-47 did not return).
InitSucceeded == Written # InitFailedDoc /\ pc \notin {"idle", "start", "init_failed_rm"}

SelectedStages == {progress_data.clouds[c].stage : c \in Range(selected_clouds_list)}

\* The worker's ways out, step by step.
ExitsPassCleanup ==
    /\ (pc' = "done" /\ pc # "done" => pc \in {"start_rm", "init_failed_rm", "fin_write"})
    /\ (pc' = "fin_write" /\ pc # "fin_write" => pc = "fin_cancel" /\ ~tempFile)
    /\ (pc \in {"start_rm", "init_failed_rm", "fin_cancel"} /\ pc' # pc => ~cancelFile')

\* C1: on every path by which the worker exits, the temp file is gone and the
\* status file holds the worker's final document; and each of the worker's
\* three ways out (worker.py 38-39, 46-47, 135-147) passes the removal of the
\* sentinel: after that step no sentinel is left.
C1_CleanupOnEveryExit ==
    /\ [](WorkerExited =>
            /\ ~tempFile
            /\ \/ statusFile = File("json", AsDoc(progress_data))
               \/ statusFile = File("json", InitFailedDoc))
    /\ [][ExitsPassCleanup]_vars

\* C1 witness: the worker exited after a download that left a temp file and a
\* sentinel that its cleanup found; both are gone and the final document is written.
C1_Witness ==
    /\ WorkerExited
    /\ temp_filepath_actual
    /\ observed
    /\ ~tempFile
    /\ ~cancelFile
    /\ statusFile = File("json", AsDoc(progress_data))

\* The aggregation of C2, with the statuses the document at exit holds.
\* zero_fails: whether a download of zero bytes counts as a failed download.
Aggregated(zero_fails) ==
    LET st == Written.status
        download_failed == \/ progress_data.download.stage = "failed"
                           \/ (zero_fails /\ new_file_size = 0)
        one_failed == "failed" \in SelectedStages
        all_done == SelectedStages \subseteq {"completed", "skipped"}
    IN  /\ observed => st = "cancelled"
        /\ ~observed /\ (download_failed \/ one_failed) => st = "failed"
        /\ ~observed /\ ~download_failed /\ ~one_failed /\ all_done => st = "completed"
        /\ st = "completed" => all_done

\* C2 as stated: at exit the final status is 'cancelled' if a cancellation
\* check found the sentinel; otherwise 'failed' if the download failed or a
\* selected destination ended 'failed'; otherwise 'completed' if every
\* selected destination ended 'completed' or 'skipped'.
C2_Original == WorkerExited /\ InitSucceeded => Aggregated(FALSE)

\* C2 amended: as C2, with a download of zero bytes counted with the failed
\* downloads ('failed', whatever the destinations).
C2_FinalStatusAggregation == WorkerExited /\ InitSucceeded => Aggregated(TRUE)

\* C2 witness: a run that ended 'completed' with one destination skipped and
\* one completed.
C2_Witness ==
    /\ WorkerExited
    /\ Written.status = "completed"
    /\ SelectedStages = {"completed", "skipped"}

TerminalStays ==
    job_status \in TERMINAL =>
        /\ job_status' \in {job_status, "removed"}
        /\ (pc = "idle" => pc' = "idle")

\* C3: once the job's status in the registry is terminal it stays as it is
\* until the job is removed, and the job is not dispatched again.
C3_TerminalIsFinal == [][TerminalStays]_vars

\* C4: a sentinel created while the download task runs ends the run cancelled:
\* at exit the temp file and the sentinel are gone, download.stage and status
\* are 'cancelled', and no upload was attempted.
C4_CancelDuringDownload ==
    WorkerExited /\ cancelInDownload =>
        /\ ~tempFile
        /\ ~cancelFile
        /\ Written.download.stage = "cancelled"
        /\ Written.status = "cancelled"
        /\ uploadLog = << >>

\* C5: a download that succeeds with zero bytes, no cancellation observed,
\* ends 'failed', and the upload task is called for no destination.
C5_ZeroBytesFails ==
    /\ new_file_size = 0 => uploadLog = << >>
    /\ WorkerExited /\ new_file_size = 0 /\ ~observed => Written.status = "failed"

\* C5 witness: such a run, with destinations selected, has exited.
C5_Witness ==
    /\ WorkerExited
    /\ new_file_size = 0
    /\ ~observed
    /\ Len(selected_clouds_list) = MaxSelected
    /\ Written.status = "failed"

UploadPcs == {"up_begin", "up_init", "up_check", "up_pre", "up_xfer", "up_url"}

\* A step of the upload loop leaves the other destinations' records alone.
OthersUntouched ==
    pc \in UploadPcs =>
        \A c \in DOMAIN progress_data.clouds :
            c # Cloud => progress_data'.clouds[c] = progress_data.clouds[c]

\* C6: a destination's failure is recorded for that destination alone (a step
\* of the upload loop changes no other destination's record), every other
\* destination of the loop is still attempted, in turn, and reaches its own
\* outcome, and the job ends 'failed' whatever the others report.
C6_FailureIsLocal ==
    /\ [](WorkerExited /\ uploadLog # << >> =>
            /\ uploadLog = clouds_to_upload
            /\ \A c \in Range(clouds_to_upload) :
                  progress_data.clouds[c].stage \in {"completed", "skipped", "failed"}
            /\ ("failed" \in SelectedStages => Written.status = "failed"))
    /\ [][OthersUntouched]_vars

\* C6 witness: the first destination failed, the second completed, the job
\* ended 'failed'.
C6_Witness ==
    /\ WorkerExited
    /\ Len(clouds_to_upload) = 2
    /\ progress_data.clouds[clouds_to_upload[1]].stage = "failed"
    /\ progress_data.clouds[clouds_to_upload[2]].stage = "completed"
    /\ Written.status = "failed"

\* The step that makes the size check (tasks.py 364-376), judged from outside.
SizeCheckDecides ==
    At("up_check") /\ tempFile /\ pc' # "up_check" =>
        LET c == Cloud
            E == up'.existing_size
            fits == 2 * (E + FileSize) <= SIZE_LIMIT_GB_x2 * GB
            excess_x2 == 2 * (E + FileSize) - SIZE_LIMIT_GB_x2 * GB
            after == progress_data'.clouds[c]
            off == 2 * GB * after.message.n - 100 * excess_x2
        IN  IF fits
            THEN pc' = "up_pre" /\ after.stage = "checking"
            ELSE /\ after.stage = "skipped"
                 /\ pc' \in {"up_begin", "final"}
                 /\ up'.bytes_transferred = 0
                 /\ off <= GB /\ -off <= GB

C8_InFlightReadsProcessing ==
    wr # "idle" =>
        LET job_progress == get_job_progress(cancelFile, statusFile, job_status)
        IN  /\ job_progress # ReadFailed
            /\ Displayed(statusFile).status # "error (read failed)"
            /\ ~cancelFile => /\ job_progress.status = "processing"
                              /\ Displayed(statusFile).status = "processing"

\* C8 witness: the worker's last rewrite is under way, part of the text is in
\* the file, and the display loop has shown the job (marked 'cancelling'
\* before) as 'processing'.
C8_Witness ==
    /\ wr = "partial"
    /\ pc = "done"
    /\ cancelInDownload
    /\ ~cancelFile
    /\ job_status = "processing"

\* Every list of the registry: the persisted one and each session's.
Registries == {masterFile} \cup {session[s].jobs : s \in Sessions}

\* Entries of a list that carry the given job_id.
EntriesOf(jobs, id) == {i \in 1..Len(jobs) : jobs[i].job_id = id}

\* C9: for any job_id at most one worker process is ever launched, whatever
\* the sequence of dispatch passes and whichever sessions make them.  Stated
\* for the jobs that no list holds twice, so that a second launch is a second
\* dispatch of one entry and not the dispatch of two entries sharing an id.
C9_OneWorkerPerJob ==
    \A id \in JobIds :
        (\A jobs \in Registries : Cardinality(EntriesOf(jobs, id)) <= 1)
            => launched[id] <= 1

\* C10: after any sequence of add, dispatch, remove and clear operations no two
\* entries of a registry list have the same job_id.
C10_UniqueJobIds ==
    \A jobs \in Registries :
        \A i, j \in 1..Len(jobs) : i # j => jobs[i].job_id # jobs[j].job_id

\* C11: a job whose launch failed stays 'pending': an entry is recorded as
\* 'processing', in a session's list or in the persisted one, only when a
\* worker was launched for its job_id.
C11_FailedLaunchStaysPending ==
    \A jobs \in Registries :
        \A i \in 1..Len(jobs) :
            jobs[i].status = "processing" => launched[jobs[i].job_id] > 0

\* A step of the download task that changes the download record, the record
\* being that of a download under way.
PercentageKept ==
    /\ pc \in {"dl_request", "dl_loop", "dl_except"}
    /\ progress_data.download.stage = "downloading"
    /\ progress_data'.download # progress_data.download
    => /\ progress_data'.download.percentage \in 0..100
       /\ progress_data'.download.percentage >= progress_data.download.percentage

\* C12: within one run of the download task the percentage of the download
\* record, from one status document to the next, stays within 0..100 and
\* never decreases, on the paths to completion, cancellation and failure.
C12_PercentageMonotone == [][PercentageKept]_vars

\* Upload stages a destination passes through before its outcome.
InProgressStages == {"pending", "checking", "uploading", "generating_url"}

\* The two orderings of C13, for the destination records of one document.
Ordered(doc) ==
    /\ (\E c \in DOMAIN doc.clouds : doc.clouds[c] # EmptyRec)
          => doc.download.stage \in {"completed", "cancelled", "failed"}
    /\ Cardinality({c \in DOMAIN doc.clouds :
                       doc.clouds[c].stage \in InProgressStages}) <= 1

\* C13: no destination record leaves its initial empty state before the
\* download has ended (completed, cancelled or failed), and at most one
\* destination at a time is in a stage pending, checking, uploading or
\* generating_url; in the worker's progress_data, in the document being
\* written and in the status file.
C13_DownloadBeforeUploads ==
    /\ Ordered(AsDoc(progress_data))
    /\ Ordered(wdoc)
    /\ Ordered(Written)

\* C13 witness: the second destination is uploading after the first one
\* reached its outcome, the download completed.
C13_Witness ==
    /\ pc = "up_xfer"
    /\ up.idx = 2
    /\ progress_data.download.stage = "completed"
    /\ progress_data.clouds[clouds_to_upload[1]].stage \in {"completed", "skipped", "failed"}
    /\ progress_data.clouds[clouds_to_upload[2]].stage = "uploading"
    /\ statusFile.kind = "json"
    /\ Written.clouds[clouds_to_upload[2]].stage = "uploading"

\* C14: a sentinel that exists after the worker exited is eventually deleted,
\* the dashboard reading the job's files again and again.
C14_OrphanSentinelDeleted == (WorkerExited /\ cancelFile) ~> ~cancelFile

\* C15: with a required credential or endpoint missing, the worker process
\* does not terminate abnormally: it runs to the end of the job.
C15_MissingCredentialsNoCrash == missing_vars => pc # "sys_exit"

\* The list of the last save_state whose text went into the file in full,
\* the file being closed already or not.
LastWritten ==
    IF save_pc = "writing" /\ master_state_file.text = Dump(job_list)
    THEN job_list ELSE last_saved

\* The master file holds, whole and readable, what save_state wrote last.
WellFormed ==
    /\ master_state_file.exists
    /\ master_state_file.readable
    /\ master_state_file.text = Dump(LastWritten)

\* What C16 asks of a load of the file as it is.  told_always: whether a
\* file that is absent or empty must be reported to the user as well.
LoadsSafely(told_always) ==
    LET got == load_state(FALSE, << >>, master_state_file)
        silent == ~master_state_file.exists \/ master_state_file.text = << >>
    IN  /\ ~got.raised
        /\ WellFormed => got.jobs = LastWritten
        /\ ~WellFormed => /\ got.jobs = << >>
                          /\ (told_always \/ ~silent) => got.told

\* C16 as stated: load_state never raises; for a file that is absent, empty,
\* not a JSON list or unreadable it returns the empty list and warns; for a
\* well-formed file it returns the list last written by save_state.
C16_Original == LoadsSafely(TRUE)

\* C16 amended: as C16, the warning being given for a file that is not a JSON
\* list or cannot be read or decoded; an absent or empty file gives the empty
\* list without a warning.
C16_LoadNeverFails == LoadsSafely(FALSE)

\* C16 witness: a session loaded a list of the longest kind that save_state
\* had written in full.
C16_Witness ==
    /\ WellFormed
    /\ save_pc = "idle"
    /\ Len(last_saved) = MaxListLen
    /\ last_saved[1].selected_clouds # << >>
    /\ loaded_jobs = Loaded(last_saved, FALSE)

\* Whether a record of a status document is of the kind C17 describes:
\* its stage among the given ones, its percentage (when it has one) in 0..100.
WellTyped(record, stages) ==
    /\ record.stage \in stages
    /\ record.percentage \in -1..100

\* C17: every complete status document written for the job has a status
\* among processing, completed, failed, cancelled, cancelling, a download
\* record with a stage among pending, downloading, completed, failed,
\* cancelled, and destination records with a stage among pending, checking,
\* uploading, generating_url, completed, skipped, failed; percentages are in
\* 0..100.
C17_DocumentsWellTyped ==
    statusFile.kind = "json" =>
        /\ Written.status \in {"processing", "completed", "failed", "cancelled", "cancelling"}
        /\ WellTyped(Written.download,
                     {"pending", "downloading", "completed", "failed", "cancelled"})
        /\ \A c \in DOMAIN Written.clouds :
              WellTyped(Written.clouds[c],
                        InProgressStages \cup {"completed", "skipped", "failed"})

\* C18: a destination whose stage is 'completed' carries an access URL, with
\* its kind (public, or signed for a week).
C18_CompletedHasUrl ==
    \A c \in DOMAIN progress_data.clouds :
        progress_data.clouds[c].stage = "completed" =>
            progress_data.clouds[c].message \in
                {Msg("Complete. Public (Permanent*): url", 0),
                 Msg("Complete. Presigned (7 days): url", 0)}

\* C19: a worker run that reaches its end leaves a status document whose
\* status is completed, failed or cancelled, whatever names were selected.
C19_ExitIsTerminal == WorkerExited => Written.status \in TERMINAL

\* The worker is on, or has left by, the early exit of worker.py 34-39.
CancelledBeforeStart ==
    /\ pc \in {"start_rm", "done"}
    /\ progress_data.download.message = Msg("Cancelled before start.", 0)

\* The steps of a worker that finds the sentinel when main() starts.
EarlyExitSteps ==
    /\ At("start") /\ ~missing_vars /\ cancelFile /\ pc' # pc
          => pc' = "start_rm" /\ wdoc'.status = "cancelled"
    /\ pc = "start_rm" /\ pc' # pc => pc' = "done" /\ ~cancelFile'

\* C20: a worker whose main() finds the sentinel at its start writes a
\* document with status 'cancelled', deletes the sentinel and exits; the
\* download task and the upload task are not called and no temp file is
\* created.
C20_CancelledBeforeStart ==
    /\ [][EarlyExitSteps]_vars
    /\ [](CancelledBeforeStart =>
            /\ ~tempFile
            /\ ~temp_filepath_actual
            /\ progress_data.download.stage = "cancelled"
            /\ uploadLog = << >>
            /\ \A c \in DOMAIN progress_data.clouds : progress_data.clouds[c] = EmptyRec
            /\ (WorkerExited => Written.status = "cancelled" /\ ~cancelFile))

\* C20 witness: the worker left by the early exit, the document says
\* 'cancelled' and the sentinel it found is gone.
C20_Witness ==
    /\ WorkerExited
    /\ CancelledBeforeStart
    /\ selected_clouds_list # << >>
    /\ Written.status = "cancelled"
    /\ ~cancelFile

\* The re-check of worker.py 68 found the sentinel after a download that had
\* completed (the only place that writes this message).
CancelledAfterDownload ==
    progress_data.download.message = Msg("Cancelled after download.", 0)

\* C21: when the re-check between download and uploads finds the sentinel
\* after a successful download, the upload task is called for no
\* destination, and at exit the status document says 'cancelled' with
\* download.stage 'cancelled', and the downloaded file and the sentinel are
\* gone.
C21_CancelAtRecheck ==
    CancelledAfterDownload =>
        /\ uploadLog = << >>
        /\ progress_data.status = "cancelled"
        /\ progress_data.download.stage = "cancelled"
        /\ (WorkerExited =>
               /\ Written.status = "cancelled"
               /\ Written.download.stage = "cancelled"
               /\ ~tempFile
               /\ ~cancelFile)

\* C21 witness: a download of a file with bytes in it completed, with
\* destinations selected; the re-check found the sentinel and the worker has
\* exited.
C21_Witness ==
    /\ WorkerExited
    /\ CancelledAfterDownload
    /\ new_file_size > 0
    /\ Len(selected_clouds_list) = MaxSelected
    /\ Written.status = "cancelled"
    /\ ~tempFile
    /\ ~cancelFile

\* The order of a cancellation, step by step: a document with status
\* 'cancelled' starts being written only with the temp file gone, and the
\* worker deletes the sentinel it observed only when such a document is on
\* disk in full and the temp file is gone.
CancelOrder ==
    /\ wr = "idle" /\ wr' = "open" /\ wdoc'.status = "cancelled" => ~tempFile'
    /\ observed /\ pc # "idle" /\ cancelFile /\ ~cancelFile'
          => /\ ~tempFile
             /\ statusFile.kind = "json"
             /\ Written.status = "cancelled"

\* C22: on every path on which the worker observes the sentinel (the poll of
\* the download loop, the download's except branch, the re-check before the
\* uploads) the transfer is stopped and the downloaded or partial file
\* deleted before a document with status 'cancelled' is written, and the
\* sentinel is deleted only after that document.
C22_CancelOrder == [][CancelOrder]_vars

\* C23: the tracker writes a document only when more than one second has
\* passed since the last one it wrote: the time between two consecutive
\* documents written by its calls is more than one second.
C23_EmissionThrottled == \A gap \in emitted.gaps : gap > 1

\* Every call of the tracker has returned.
AllReturned == \A t \in Threads : thr[t].pc = "idle"

\* C30: whatever the interleaving of the threads' calls, no update is lost:
\* when every call has returned, bytes_transferred is the sum of the bytes
\* the calls reported, and every percentage written is in 0..100.
C30_NoLostUpdate ==
    /\ AllReturned => tracker.bytes_transferred = tracker.total_size - unsent
    /\ emitted.percentages \subseteq 0..100

\* C30 witness: the whole of the largest file was reported, by calls of which
\* one arrived while another thread held the lock, and all have returned.
C30_Witness ==
    /\ AllReturned
    /\ tracker.total_size = MaxTotal
    /\ unsent = 0
    /\ emitted.contended
    /\ emitted.n >= 2
    /\ tracker.bytes_transferred = MaxTotal
    /\ 100 \in emitted.percentages

\* A record of the size check: the stage 'checking', or the skip for a file
\* that would take the bucket over the limit.
OfSizeCheck(record) ==
    \/ record.stage = "checking"
    \/ record.message.text = "Skipped: Would exceed limit by GB (hundredths)"

\* C26: the size check is made for the destinations that declare a ceiling in
\* the catalog, against that ceiling, and for no other: a destination without
\* a declared ceiling is never 'checking' and never skipped for exceeding a
\* limit.
C26_CeilingOnlyWhereDeclared ==
    \A c \in DOMAIN progress_data.clouds :
        OfSizeCheck(progress_data.clouds[c]) =>
            /\ c \in DeclaresCeiling
            /\ max_size_gb_x2(c) = SIZE_LIMIT_GB_x2

\* s is the beginning of t.
IsPrefix(s, t) == Len(s) <= Len(t) /\ \A i \in 1..Len(s) : s[i] = t[i]

\* C24: the upload task is called for the selected destinations in the order
\* of the list handed to the worker, once each: at any time the destinations
\* it was called for are the beginning of that list, and the whole of it when
\* a worker that started the uploads has exited.
C24_UploadsInSelectionOrder ==
    /\ IsPrefix(uploadLog, selected_clouds_list)
    /\ WorkerExited /\ uploadLog # << >> => uploadLog = selected_clouds_list

\* The download task failed with no sentinel there (tasks.py 327-333; the
\* only place that writes this record).
DownloadFailed == progress_data.download = Rec("failed", 0, Msg("Error: ", 0))

\* The download task is entered from the worker's start and from nowhere else.
DownloadCalledOnce == pc' = "dl_begin" /\ pc # "dl_begin" => pc = "start"

\* C25: when the download fails with a transport error and no sentinel
\* exists, download.stage is 'failed' with the error text and stays so, the
\* worker goes straight to its cleanup and exit, calling the upload task for
\* no destination and the download task not again, and at exit the document
\* says 'failed' and the temp file is gone.
C25_DownloadFailureIsFatal ==
    /\ [][DownloadCalledOnce]_vars
    /\ [](DownloadFailed =>
            /\ pc \in {"dl_raise", "fin_temp", "fin_cancel", "fin_write", "done"}
            /\ uploadLog = << >>
            /\ progress_data.status = "failed"
            /\ (WorkerExited =>
                   /\ Written.status = "failed"
                   /\ Written.download = progress_data.download
                   /\ ~tempFile))

\* C25 witness: the transport failed after part of the body had been written
\* to the temp file, with destinations selected; the worker has exited.
C25_Witness ==
    /\ WorkerExited
    /\ DownloadFailed
    /\ dl.downloaded_size > 0
    /\ selected_clouds_list # << >>
    /\ Written.status = "failed"
    /\ ~tempFile

\* A step never takes the job's status in the registry backwards.
StatusForward ==
    /\ job_status = "cancelling" => job_status' \notin {"processing", "pending"}
    /\ job_status = "processing" => job_status' # "pending"

\* C27: before it is terminal, the status of the job in the registry moves
\* only forward through pending, processing, cancelling, whatever the
\* interleaving of the Cancel button, the worker's steps and the dashboard's
\* reads: 'cancelling' is not followed by 'processing' or 'pending', nor
\* 'processing' by 'pending'.
C27_StatusMovesForward == [][StatusForward]_vars

\* What identifies an entry, whatever its status: its job_id and filename.
Keys(jobs) == [i \in 1..Len(jobs) |-> <<jobs[i].job_id, jobs[i].filename>>]

\* s can be had from t by leaving entries of t out.
RECURSIVE IsSubseq(_, _)
IsSubseq(s, t) ==
    IF s = << >> THEN TRUE
    ELSE IF t = << >> THEN FALSE
    ELSE IF Head(s) = Head(t) THEN IsSubseq(Tail(s), Tail(t))
    ELSE IsSubseq(s, Tail(t))

\* The list without its entry i.
Without(jobs, i) ==
    [k \in 1..(Len(jobs) - 1) |-> IF k < i THEN jobs[k] ELSE jobs[k + 1]]

\* What a step may do to a list of the registry: destroy nothing; or remove
\* one entry whose status is 'pending', the others staying in their order; or
\* clear it of exactly its terminal entries, the others staying as they are.
EntriesKept(before, after) ==
    \/ IsSubseq(Keys(before), Keys(after))
    \/ \E i \in 1..Len(before) :
          /\ before[i].status = "pending"
          /\ Keys(after) = Keys(Without(before, i))
    \/ /\ \E i \in 1..Len(before) : before[i].status \in TERMINAL
       /\ after = SelectSeq(before, LAMBDA j : j.status \notin TERMINAL)

\* Every list of the registry keeps its entries over the step; persisted:
\* whether the persisted list is held to it like the sessions' lists, or
\* only to being the list of some session whenever it is rewritten.
RegistryKept(persisted) ==
    /\ \A s \in Sessions : EntriesKept(session[s].jobs, session'[s].jobs)
    /\ IF persisted THEN EntriesKept(masterFile, masterFile')
       ELSE masterFile' # masterFile =>
                \E s \in Sessions : Keys(masterFile') = Keys(session'[s].jobs)

OnlyWorkerWrites == statusFile' # statusFile => wr # "idle" \/ wr' # "idle"

\* C29: the job's status document is created, rewritten and deleted by the
\* job's worker alone; the dispatcher and the dashboard, job removal
\* included, leave it as it is.
C29_WorkerOwnsDocument == [][OnlyWorkerWrites]_vars

\* A sentinel is there that was created after the re-check of worker.py 68
\* found none, in a run whose download completed and whose uploads were
\* started: the worker is in its upload phase or in the cleanup after it.
LateCancel ==
    /\ cancelFile
    /\ ~download_cancelled
    /\ progress_data.download.stage = "completed"
    /\ new_file_size > 0
    /\ selected_clouds_list # << >>
    /\ pc \in {"gate", "final", "fin_temp", "fin_cancel"} \cup UploadPcs

\* The run's outcome, fixed when the worker reaches its cleanup, is that of
\* the destinations alone.
OutcomeOfDestinations ==
    /\ uploadLog = clouds_to_upload
    /\ \A c \in Range(clouds_to_upload) :
          progress_data.clouds[c].stage \in {"completed", "skipped", "failed"}
    /\ progress_data.status # "cancelled"
    /\ progress_data.status = "failed" <=> "failed" \in SelectedStages
    /\ Range(selected_clouds_list) \subseteq CloudNames
          => progress_data.status \in {"completed", "failed"}

\* A step taken while such a sentinel is there: the worker does not observe
\* it, and it stays until the step of the final cleanup, which deletes it.
LateCancelIgnored ==
    LateCancel =>
        /\ observed' = observed
        /\ download_cancelled' = download_cancelled
        /\ IF pc = "fin_cancel" /\ pc' # pc THEN ~cancelFile' ELSE cancelFile'

\* C31: a sentinel created after the re-check, while the uploads run, is
\* never observed by the worker: every destination of the upload loop is
\* still attempted, the final status is that of the destinations' outcomes
\* (completed or failed for destinations of the catalog, never cancelled),
\* and the sentinel is deleted by the final cleanup.
C31_LateCancelIgnored ==
    /\ [][LateCancelIgnored]_vars
    /\ [](LateCancel /\ pc \in {"fin_temp", "fin_cancel"} => OutcomeOfDestinations)

\* C31 witness: the worker is at its final cleanup with such a sentinel still
\* there, both destinations attempted and completed.
C31_Witness ==
    /\ LateCancel
    /\ At("fin_cancel")
    /\ Len(uploadLog) = MaxSelected
    /\ SelectedStages = {"completed"}
    /\ progress_data.status = "completed"
    /\ ~observed

\* The step of the size check in which listing the bucket failed.
ListingFailureNeutral ==
    At("up_check") /\ tempFile /\ pc' # pc /\ ~up'.listing_ok =>
        LET c == Cloud
        IN  /\ up'.existing_size = 0
            /\ IF 2 * FileSize <= SIZE_LIMIT_GB_x2 * GB
               THEN /\ pc' = "up_pre"
                    /\ progress_data'.clouds[c].stage = "checking"
               ELSE progress_data'.clouds[c].stage = "skipped"

\* C32: when listing the bucket fails during the size check, the existing
\* size is taken as 0 and the check made with it: the failure by itself makes
\* the destination neither 'failed' nor 'skipped', and the upload goes on
\* whenever the file alone is within the limit.
C32_ListingFailureCountsAsEmpty == [][ListingFailureNeutral]_vars

\* C32 witness: the size check of Oracle Cloud was made with a listing that
\* failed, and the upload goes on to the transfer.
C32_Witness ==
    /\ At("up_pre")
    /\ Cloud = OCI_NAME
    /\ ~up.listing_ok
    /\ up.existing_size = 0
    /\ progress_data.clouds[OCI_NAME].stage = "checking"

\* The download task ended in a cancellation (tasks.py 281 and 322 write this
\* message, and nothing else does).
DownloadCancelled ==
    progress_data.download.message = Msg("Download cancelled by user.", 0)

\* The step of the download's except branch taken with the sentinel there.
ErrorWithSentinel ==
    At("dl_except") /\ cancelFile /\ pc' # pc =>
        /\ pc' = "dl_cancel_rm"
        /\ ~tempFile'
        /\ progress_data'.status = "cancelled"
        /\ progress_data'.download.stage = "cancelled"
        /\ wdoc' = AsDoc(progress_data')
        /\ DownloadCancelled'

\* C33: an error of the download raised while the sentinel exists ends in a
\* cancellation, not a failure: the partial file is removed, download.stage
\* and status become 'cancelled', the sentinel is deleted once that document
\* is written, and the run's final status is 'cancelled'.
C33_ErrorWithSentinelCancels ==
    /\ [][ErrorWithSentinel]_vars
    /\ [](DownloadCancelled =>
            /\ ~tempFile
            /\ progress_data.status = "cancelled"
            /\ progress_data.download.stage = "cancelled"
            /\ uploadLog = << >>
            /\ (pc # "dl_cancel_rm" => ~cancelFile /\ download_cancelled)
            /\ (WorkerExited =>
                   /\ Written.status = "cancelled"
                   /\ Written.download.stage = "cancelled"))

\* C33 witness: the transport failed after half of the body had arrived, the
\* sentinel being there (the record has the percentage 0 of the except
\* branch, not the 50 the loop had reached); the worker has exited.
C33_Witness ==
    /\ WorkerExited
    /\ DownloadCancelled
    /\ dl.percentage > 0
    /\ progress_data.download.percentage = 0
    /\ Written.status = "cancelled"
    /\ ~cancelFile
    /\ ~tempFile

\* The status file holds a complete document with a terminal status.
ShowsTerminal == statusFile.kind = "json" /\ Written.status \in TERMINAL

\* From a document with a terminal status on, a complete document in the
\* file has that same status.
TerminalDocumentStays ==
    ShowsTerminal /\ statusFile'.kind = "json"
        => statusFile'.data.status = Written.status

\* C34: whenever the job's status document shows completed, failed or
\* cancelled, the worker has finished its cleanup: the temp file does not
\* exist, and no later write of the worker changes the document's status.
C34_TerminalDocumentAfterCleanup ==
    /\ [](ShowsTerminal => ~tempFile)
    /\ [][TerminalDocumentStays]_vars

====
